---- MODULE Spec2Model ----
(***************************************************************************)
(* Lip-sync frame scheduler of kizuna (src/src/services/LipSyncService.ts) *)
(* as a state machine: the LipSyncController singleton, the browser's      *)
(* requestAnimationFrame queue that drives its animate closure, and the    *)
(* callers (renderers registering targets, the chat stream hooks).         *)
(*                                                                         *)
(* Units.  Times are integers in 1/TimeScale ms, so that the division of   *)
(* phonemesToFrames (textLength * charDuration / phonemes.length) is exact *)
(* for every phoneme count the model draws.  Weights are in percent        *)
(* (0.7 -> 70, 0.1 -> 10).  A character is a Unicode code point, a text a  *)
(* sequence of code points (what `for (const char of text)` iterates).     *)
(***************************************************************************)
EXTENDS Integers, Sequences, FiniteSets, TLC

\* ------------------------------------------------------------------ bounds

MaxTargets == 2
MaxQueue == 2
MaxPhonemes == 2
MaxTextLen == 3

RECURSIVE Factorial(_)
Factorial(n) == IF n <= 1 THEN 1 ELSE n * Factorial(n - 1)

TimeScale == Factorial(MaxPhonemes)
Ms(n) == n * TimeScale

\* --------------------------------------------------------- program constants

DefaultCharDuration == 80
DefaultTransitionDuration == 50
DefaultSpeakingWeight == 70
SilentWeight == 10
GraceWindow == 500
CjkLo == 19968
CjkHi == 40959
HashModulus == 100

Phonemes == {"A", "E", "I", "O", "U", "N", "closed"}
RandomVowels == <<"A", "E", "I", "O", "U">>

NoTarget == 0
Targets == 1..MaxTargets
NoTimer == 0

DEFAULT_CONFIG ==
  [charDuration |-> Ms(DefaultCharDuration),
   transitionDuration |-> Ms(DefaultTransitionDuration),
   speakingWeight |-> DefaultSpeakingWeight,
   enabled |-> TRUE]

\* ------------------------------------------------- getPhonemeForChar (34-62)

\* JavaScript's \s class.
WhiteSpace ==
  {9, 10, 11, 12, 13, 32, 160, 5760, 8232, 8233, 8239, 8287, 12288, 65279}
    \cup (8192..8202)

\* The character class of the punctuation test, line 40.
ClosedChars ==
  {65292, 12290, 65281, 65311, 12289, 65307, 65306, 34, 39, 65288, 65289,
   44, 46, 33, 63, 59, 58, 40, 41} \cup WhiteSpace

\* char.charCodeAt(0): the first UTF-16 unit (the high surrogate of an astral char).
CharCodeAt0(ch) == IF ch < 65536 THEN ch ELSE 55296 + ((ch - 65536) \div 1024)

\* char.length in UTF-16 units.
Utf16Len(ch) == IF ch < 65536 THEN 1 ELSE 2

\* char.toLowerCase(), on the characters the vowel test can tell apart.
ToLowerCase(ch) == IF ch >= 65 /\ ch <= 90 THEN ch + 32 ELSE ch

\* "aeiou".includes(lower) followed by lower.toUpperCase().
VowelOf(lower) ==
  CASE lower = 97 -> "A"
    [] lower = 101 -> "E"
    [] lower = 105 -> "I"
    [] lower = 111 -> "O"
    [] lower = 117 -> "U"
    [] OTHER -> "none"

IsOutsideCjk(ch) == CharCodeAt0(ch) < CjkLo \/ CharCodeAt0(ch) > CjkHi

\* The regular expression has no u flag: it tests UTF-16 units, and no surrogate is in the class.
IsClosedChar(ch) == ch < 65536 /\ ch \in ClosedChars

\* Whether getPhonemeForChar reaches Math.random() for this character (line 49).
NeedsRandom(ch) ==
  /\ IsOutsideCjk(ch)
  /\ ~IsClosedChar(ch)
  /\ VowelOf(ToLowerCase(ch)) = "none"

\* (code * 7 + code >> 3) % 100: + binds tighter than >>.
CharHash(code) == ((code * 7 + code) \div 8) % HashModulus

\* r is the value of Math.floor(Math.random() * 5), read only on the consonant branch.
getPhonemeForChar(ch, r) ==
  IF IsOutsideCjk(ch)
  THEN IF IsClosedChar(ch) THEN "closed"
       ELSE IF VowelOf(ToLowerCase(ch)) # "none" THEN VowelOf(ToLowerCase(ch))
       ELSE RandomVowels[r + 1]
  ELSE LET hash == CharHash(CharCodeAt0(ch))
       IN IF hash < 25 THEN "A"
          ELSE IF hash < 45 THEN "I"
          ELSE IF hash < 60 THEN "E"
          ELSE IF hash < 75 THEN "O"
          ELSE IF hash < 90 THEN "U"
          ELSE "N"

\* ---------------------------------------------------- textToFrames (224-246)

FrameWeight(phoneme, cfg) ==
  IF phoneme = "closed" \/ phoneme = "N" THEN SilentWeight ELSE cfg.speakingWeight

\* Mutant: every character pushes its own frame.
PushWithoutMerge(frames, phoneme, cfg) ==
  Append(frames, [phoneme |-> phoneme,
                  weight |-> FrameWeight(phoneme, cfg),
                  duration |-> cfg.charDuration])

\* One iteration of the loop body: merge into the last frame or push a new one.
PushOrMerge(frames, phoneme, cfg) ==
  LET n == Len(frames)
  IN IF n > 0 /\ frames[n].phoneme = phoneme
     THEN [frames EXCEPT ![n].duration = @ + cfg.charDuration]
     ELSE Append(frames, [phoneme |-> phoneme,
                          weight |-> FrameWeight(phoneme, cfg),
                          duration |-> cfg.charDuration])

RECURSIVE TextToFramesFrom(_, _, _, _, _)
TextToFramesFrom(text, i, rnd, frames, cfg) ==
  IF i > Len(text) THEN frames
  ELSE LET ch == text[i]
           draws == NeedsRandom(ch)
           phoneme == getPhonemeForChar(ch, IF draws THEN Head(rnd) ELSE 0)
       IN TextToFramesFrom(text, i + 1, IF draws THEN Tail(rnd) ELSE rnd,
                           PushOrMerge(frames, phoneme, cfg), cfg)

\* rnd: the successive values of Math.floor(Math.random() * 5), one per consonant.
textToFrames(text, rnd, cfg) == TextToFramesFrom(text, 1, rnd, <<>>, cfg)

RECURSIVE RandomCount(_)
RandomCount(text) ==
  IF text = <<>> THEN 0
  ELSE (IF NeedsRandom(Head(text)) THEN 1 ELSE 0) + RandomCount(Tail(text))

RandomDraws(text) == [1..RandomCount(text) -> 0..4]

\* content.length, in UTF-16 units.
RECURSIVE TextLength(_)
TextLength(text) ==
  IF text = <<>> THEN 0 ELSE Utf16Len(Head(text)) + TextLength(Tail(text))

\* ------------------------------------------------ phonemesToFrames (164-200)

\* The phoneme tags the backend may send (trusted verbatim), with phonemeStr.toUpperCase().
Tags == {"A", "a", "E", "I", "O", "U", "N", "n", "closed", "CLOSED", "x"}

ToUpperCase(tag) ==
  CASE tag = "a" -> "A"
    [] tag = "n" -> "N"
    [] tag = "closed" -> "CLOSED"
    [] tag = "x" -> "X"
    [] OTHER -> tag

\* An entry of the array that is no string (null, a number): JSON admits it.
NonText == "(non-text)"

Max(a, b) == IF a >= b THEN a ELSE b
Min(a, b) == IF a <= b THEN a ELSE b

\* Mutant: the share of the text's duration, without the floor of one charDuration.
AvgDurationShare(n, textLength, cfg) == (textLength * cfg.charDuration) \div n

\* Lines 168-171; the division is exact in 1/TimeScale ms.
AvgDuration(n, textLength, cfg) ==
  Max(cfg.charDuration, (textLength * cfg.charDuration) \div n)

\* Mutant: every frame gets the speaking weight.
PhonemeFrameLoud(tag, avgDuration, cfg) ==
  [phoneme |-> IF ToUpperCase(tag) \in Phonemes THEN ToUpperCase(tag) ELSE "A",
   weight |-> cfg.speakingWeight,
   duration |-> avgDuration]

\* Lines 174-196: one frame for one tag.
PhonemeFrame(tag, avgDuration, cfg) ==
  LET upperPhoneme == ToUpperCase(tag)
      phoneme == IF upperPhoneme = "CLOSED" \/ tag = "closed" THEN "closed"
                 ELSE IF upperPhoneme = "N" THEN "N"
                 ELSE IF upperPhoneme \in {"A", "E", "I", "O", "U"} THEN upperPhoneme
                 ELSE "A"
      isSilent == (upperPhoneme = "CLOSED" \/ tag = "closed") \/ upperPhoneme = "N"
  IN [phoneme |-> phoneme,
      weight |-> IF isSilent THEN SilentWeight ELSE cfg.speakingWeight,
      duration |-> avgDuration]

\* phonemeStr.toUpperCase() (174) is a TypeError on an entry that is no string.
PhonemesThrow(phonemes) == \E i \in DOMAIN phonemes : phonemes[i] = NonText

phonemesToFrames(phonemes, textLength, cfg) ==
  [i \in 1..Len(phonemes) |->
     PhonemeFrame(phonemes[i], AvgDuration(Len(phonemes), textLength, cfg), cfg)]

\* ------------------------------------------------------------------- state

VARIABLES
  target,          \* this.target: NoTarget or the registered target
  config,          \* this.config
  queue,           \* this.queue
  isPlaying,       \* this.isPlaying
  animationTimer,  \* this.animationTimer: NoTimer or the id of the last request
  sinceChunk,      \* Date.now() - this.lastChunkTime, saturated above the grace window
  pending,         \* requestAnimationFrame callbacks not yet run, each with its closure's locals
  nextTarget,      \* the next adapter a renderer will create (adapters are never reused)
  registered,      \* the target the renderers last passed to setTarget
  served,          \* the targets that have received a call
  calls,           \* the calls the last operation made on targets, in order
  threw,           \* the last operation threw to its caller
  lastOp,          \* the last operation and the target registered before it
  mouth,           \* the shape last given to the registered target ("closed" after a reset)
  sinceStop,       \* stop() ran and no chunk was processed since
  sinceComplete,   \* onComplete() ran and no chunk was processed since
  fnIn,            \* the arguments of the pure function a specification applies
  fnOut,           \* its result
  faulty,          \* the targets whose methods throw
  vrm,             \* the closure of createVRMLipSyncAdapter, with the weights it has set
  mmd,             \* the closure of createMMDLipSyncAdapter, with the mesh's influences
  adapterCall,     \* the last call on an adapter, with the weights it wrote
  store,           \* the model store: isLoaded, isLoading, error, modelInfo
  canvas,          \* ThreeCanvas: its refs, its pending timeout and the props it captured
  loads,           \* the renderers initRenderer created, each with its AbortSignal
  loadLog,         \* the last step of a load: what it emitted, threw and set
  rdr,             \* one renderer adapter: its fields and what its scene holds
  flights,         \* the load() calls made on it, each at its await or settled
  rlog,            \* its last operation: the events emitted and the effects, in order
  eventHandlers,   \* BaseModelRenderer.eventHandlers: the handlers subscribed per event
  emitLog,         \* the last emit: the handlers it invoked, in order, and whether it threw
  expr,            \* the expressions of a loaded model with their weights
  subs,            \* the closures of createSafeSubscriber, one per subscriber
  bus              \* the event bus: its listeners array, the backend's handlers, the last event

ctl == <<target, config, queue, isPlaying, animationTimer, sinceChunk, pending>>
env == <<nextTarget, registered, served>>
obs == <<calls, threw, lastOp, mouth, sinceStop, sinceComplete>>
fn == <<fnIn, fnOut>>
adp == <<vrm, mmd, adapterCall>>
ldr == <<store, canvas, loads, loadLog>>
ipc == <<subs, bus>>
inst == <<rdr, flights, rlog, eventHandlers, emitLog, expr, ipc>>
aux == <<fn, faulty, adp, ldr, inst>>
vars == <<ctl, env, obs, aux>>

NoFrame == <<>>

\* The record of an operation: its name, the target it found and, for setTarget,
\* stop and animate, the playing flag and queue length it found.
Done(name) ==
  [op |-> name, prev |-> target,
   playing |-> name \in {"setTarget", "stop", "animate"} /\ isPlaying,
   queued |-> IF name \in {"setTarget", "stop", "animate"} THEN Len(queue) ELSE 0]

Saturate(t) == IF t > Ms(GraceWindow) THEN Ms(GraceWindow) + 1 ELSE t

InitController ==
  /\ target = NoTarget
  /\ config = DEFAULT_CONFIG
  /\ queue = <<>>
  /\ isPlaying = FALSE
  /\ animationTimer = NoTimer
  /\ sinceChunk = Saturate(Ms(GraceWindow) + 1)
  /\ pending = {}
  /\ nextTarget = 1
  /\ registered = NoTarget
  /\ served = {}
  /\ calls = <<>>
  /\ threw = FALSE
  /\ lastOp = [op |-> "init", prev |-> NoTarget, playing |-> FALSE, queued |-> 0]
  /\ mouth = "closed"
  /\ sinceStop = FALSE
  /\ sinceComplete = FALSE
  /\ faulty = {}

\* The renderer slot of a load initRenderer has not started.
NotCreated ==
  [kind |-> [type |-> "none", mouth |-> FALSE], pc |-> "idle", scene |-> FALSE,
   adapter |-> FALSE, disposed |-> FALSE, aborted |-> FALSE]

\* A renderer adapter as its constructor leaves it: no scene, no model, nothing
\* loaded. Models, the adapters created for them and the helpers of a load carry
\* the number of the load() call.
newRenderer(kind) ==
  [kind |-> kind, scene |-> FALSE, model |-> 0, attached |-> {}, released |-> {},
   isLoaded |-> FALSE, metadata |-> 0, lipSyncAdapter |-> 0, helper |-> 0,
   animations |-> FALSE, outfitParts |-> FALSE, loop |-> FALSE, disposed |-> FALSE]

NoFlight == [pc |-> "idle", file |-> "none"]

\* Mutant: the catch of load() emits 'error' and swallows the failure.
CatchSwallows(failure) ==
  [raised |-> failure, emitted |-> <<"error">>, error |-> failure, rejection |-> "none"]

\* The catch of load() for a failure raised in its try block: 'error' is emitted
\* with the failure, which is rethrown.
catchError(failure) ==
  [raised |-> failure, emitted |-> <<"error">>, error |-> failure, rejection |-> failure]

\* An operation that returned after emitting these events.
Returned(events) ==
  [raised |-> "none", emitted |-> events, error |-> "none", rejection |-> "none"]

NoOperation == [op |-> "none", id |-> 0, effects |-> <<>>, outcome |-> Returned(<<>>)]

\* No subscription to the event bus is under study.
NoSubscribers ==
  /\ subs = <<>>
  /\ bus = <<>>

\* No renderer adapter is under study.
NoRenderer ==
  /\ rdr = newRenderer("none")
  /\ flights = [j \in Targets |-> NoFlight]
  /\ rlog = NoOperation
  /\ eventHandlers = <<>>
  /\ emitLog = <<>>
  /\ expr = <<>>
  /\ NoSubscribers

\* No canvas is mounted; the store is in its initial state.
NoCanvas ==
  /\ store = [isLoaded |-> FALSE, isLoading |-> FALSE, error |-> 0, modelInfo |-> 0]
  /\ canvas = [mounted |-> FALSE, rendererRef |-> 0, controller |-> 0,
               isInitializing |-> FALSE, timer |-> FALSE,
               props |-> [type |-> "none", mouth |-> FALSE]]
  /\ loads = [k \in Targets |-> NotCreated]
  /\ loadLog = [op |-> "none", id |-> 0, aborted |-> FALSE, emitted |-> {},
                threw |-> FALSE, setError |-> FALSE]

\* No adapter has been created.
NoAdapters ==
  /\ vrm = <<>>
  /\ mmd = <<>>
  /\ adapterCall = "none"
  /\ NoCanvas

Init ==
  /\ InitController
  /\ fnIn = <<>>
  /\ fnOut = <<>>
  /\ NoAdapters
  /\ NoRenderer

\* ------------------------------------------------------- calls on the target

SetMouthShapeCall(tgt, phoneme, weight) ==
  [tgt |-> tgt, op |-> "setMouthShape", phoneme |-> phoneme, weight |-> weight]

ResetMouthCall(tgt) ==
  [tgt |-> tgt, op |-> "resetMouth", phoneme |-> "closed", weight |-> 0]

\* Mutant: the reset is left out.
NoReset(tgt) == [calls |-> <<>>, threw |-> FALSE]

\* this.target?.resetMouth() (lines 220 and 286): nothing is called, and nothing
\* thrown, on null; what the target throws is not caught.
OptionalReset(tgt) ==
  [calls |-> IF tgt = NoTarget THEN <<>> ELSE <<ResetMouthCall(tgt)>>,
   threw |-> tgt # NoTarget /\ tgt \in faulty]

\* easeInOut (309-313) of the progress of line 268, times the frame's weight (269);
\* the progress and the result are truncated to 1/1000 and to percent.
EasedWeight(frame, remaining) ==
  LET t == ((frame.duration - remaining) * 1000) \div frame.duration
      e == IF 2 * t < 1000
           THEN (2 * t * t) \div 1000
           ELSE 1000 - (((2000 - 2 * t) * (2000 - 2 * t)) \div 2000)
  IN (e * frame.weight) \div 1000

\* applyMouthShape (301-306): a no-op without a target, the weight clamped to [0, 1].
applyMouthShape(tgt, phoneme, weight) ==
  IF tgt = NoTarget THEN <<>>
  ELSE <<SetMouthShapeCall(tgt, phoneme, Max(0, Min(100, weight)))>>

Callees(cs) == {cs[i].tgt : i \in DOMAIN cs}

\* What the registered target's mouth shows after the calls cs.
MouthAfter(m, cs) ==
  IF cs = <<>> THEN m
  ELSE IF cs[Len(cs)].op = "resetMouth" THEN "closed" ELSE cs[Len(cs)].phoneme

\* ------------------------------------------------- requestAnimationFrame

PendingIds == {cb.id : cb \in pending}

\* Ids are never reused: the only id the controller remembers is animationTimer.
FreshId ==
  CHOOSE i \in 1..(Cardinality(pending) + 2) : i \notin PendingIds /\ i # animationTimer

\* The callback requested by startPlayback (297) with the closure's initial locals (253-255).
FirstCallback(id) ==
  [id |-> id, frameTimeRemaining |-> 0, currentFrame |-> NoFrame]

\* Mutant: the request is not cancelled.
CancelNothing(pend, id) == pend

cancelAnimationFrame(pend, id) == {cb \in pend : cb.id # id}

\* --------------------------------------------------------------- operations

\* stop() (213-221), run with this.target = tgt.
StopBody(tgt) ==
  /\ isPlaying' = FALSE
  /\ IF animationTimer # NoTimer
     THEN /\ pending' = cancelAnimationFrame(pending, animationTimer)
          /\ animationTimer' = NoTimer
     ELSE UNCHANGED <<pending, animationTimer>>
  /\ queue' = <<>>
  /\ calls' = OptionalReset(tgt).calls
  /\ threw' = OptionalReset(tgt).threw

\* Mutant: the previous target's mouth is reset on every change of target.
SetTargetResettingPrevious(t) ==
  /\ target' = t
  /\ IF t = NoTarget
     THEN StopBody(target)
     ELSE /\ UNCHANGED <<queue, isPlaying, animationTimer, pending>>
          /\ calls' = OptionalReset(target).calls
          /\ threw' = FALSE

\* Mutant: the field is kept when null is passed, so the old target stays in use.
SetTargetKeepingReference(t) ==
  /\ target' = IF t = NoTarget THEN target ELSE t
  /\ IF t = NoTarget
     THEN StopBody(target)
     ELSE /\ UNCHANGED <<queue, isPlaying, animationTimer, pending>>
          /\ calls' = <<>>
          /\ threw' = FALSE

\* Mutant: playback is stopped on every change of target.
SetTargetStoppingAlways(t) ==
  /\ target' = t
  /\ StopBody(t)

\* The body of setTarget (97-100): the field is assigned before stop() runs.
SetTargetBody(t) ==
  /\ target' = t
  /\ IF t = NoTarget
     THEN StopBody(t)
     ELSE /\ UNCHANGED <<queue, isPlaying, animationTimer, pending>>
          /\ calls' = <<>>
          /\ threw' = FALSE

\* setTarget (95-101).
setTarget(t) ==
  /\ SetTargetBody(t)
  /\ UNCHANGED <<config, sinceChunk>>
  /\ lastOp' = Done("setTarget")
  /\ mouth' = "closed"
  /\ served' = served \cup Callees(calls')
  /\ UNCHANGED <<sinceStop, sinceComplete>>

\* A renderer's setupLipSync: a newly created adapter is registered.
RegisterTarget ==
  /\ nextTarget <= MaxTargets
  /\ setTarget(nextTarget)
  /\ nextTarget' = nextTarget + 1
  /\ registered' = nextTarget
  /\ UNCHANGED aux

\* A renderer's unloadModel: lipSyncController.setTarget(null).
ClearTarget ==
  /\ setTarget(NoTarget)
  /\ UNCHANGED nextTarget
  /\ registered' = NoTarget
  /\ UNCHANGED aux

\* setConfig (104-106): a shallow merge of the partial into the config.
MergeConfig(cfg, partial) ==
  [k \in DOMAIN cfg |-> IF k \in DOMAIN partial THEN partial[k] ELSE cfg[k]]

ConfigPartials ==
  {[enabled |-> FALSE], [enabled |-> TRUE],
   [charDuration |-> Ms(100)]}

setConfig(partial) ==
  /\ config' = MergeConfig(config, partial)
  /\ UNCHANGED <<target, queue, isPlaying, animationTimer, sinceChunk, pending>>
  /\ calls' = <<>>
  /\ threw' = FALSE
  /\ lastOp' = Done("setConfig")
  /\ UNCHANGED <<mouth, sinceStop, sinceComplete, env, aux>>

\* startPlayback (249-298), entered with isPlaying false.
startPlayback ==
  /\ isPlaying' = TRUE
  /\ animationTimer' = FreshId
  /\ pending' = pending \cup {FirstCallback(FreshId)}

\* Mutant: the frames are put in front of the queue.
EnqueueInFront(frames) ==
  /\ sinceChunk' = 0
  /\ queue' = frames \o queue
  /\ IF ~isPlaying THEN startPlayback ELSE UNCHANGED <<isPlaying, animationTimer, pending>>
  /\ sinceStop' = FALSE
  /\ sinceComplete' = FALSE

\* Lines 117-126 and 142-160: stamp the chunk, append its frames, start playback if idle.
Enqueue(frames) ==
  /\ sinceChunk' = 0
  /\ queue' = queue \o frames
  /\ IF ~isPlaying THEN startPlayback ELSE UNCHANGED <<isPlaying, animationTimer, pending>>
  /\ sinceStop' = FALSE
  /\ sinceComplete' = FALSE

ChunkIgnored ==
  /\ UNCHANGED <<queue, isPlaying, animationTimer, sinceChunk, pending>>
  /\ UNCHANGED <<sinceStop, sinceComplete>>

\* processChunk (114-127).
processChunk(text, rnd) ==
  /\ IF ~config.enabled \/ target = NoTarget
     THEN ChunkIgnored
     ELSE Enqueue(textToFrames(text, rnd, config))
  /\ UNCHANGED <<target, config>>
  /\ calls' = <<>>
  /\ threw' = FALSE
  /\ lastOp' = Done("processChunk")
  /\ UNCHANGED <<mouth, env, aux>>

\* The optional phonemes argument: <<>> is undefined, <<tags>> an array.
Absent == <<>>

\* Line 142 has stamped the chunk when phonemesToFrames (148) throws.
ChunkThrows ==
  /\ sinceChunk' = 0
  /\ UNCHANGED <<queue, isPlaying, animationTimer, pending>>
  /\ UNCHANGED <<sinceStop, sinceComplete>>

\* processChunkWithPhonemes (130-161).
processChunkWithPhonemes(text, phonemes, rnd) ==
  LET supplied == phonemes # Absent /\ Len(phonemes[1]) > 0
      throws == /\ config.enabled
                /\ target # NoTarget
                /\ supplied
                /\ PhonemesThrow(phonemes[1])
  IN /\ IF ~config.enabled
        THEN ChunkIgnored
        ELSE IF target = NoTarget
        THEN ChunkIgnored
        ELSE IF throws
        THEN ChunkThrows
        ELSE IF supplied
        THEN Enqueue(phonemesToFrames(phonemes[1], TextLength(text), config))
        ELSE Enqueue(textToFrames(text, rnd, config))
     /\ UNCHANGED <<target, config>>
     /\ calls' = <<>>
     /\ threw' = throws
     /\ lastOp' = Done("processChunkWithPhonemes")
     /\ UNCHANGED <<mouth, env, aux>>

\* Mutant: the terminal frame lasts one transition, not two.
TerminalFrameSingle(cfg) ==
  [phoneme |-> "closed", weight |-> 0, duration |-> cfg.transitionDuration]

\* The terminal frame of onComplete (205-209).
TerminalFrame(cfg) ==
  [phoneme |-> "closed", weight |-> 0, duration |-> cfg.transitionDuration * 2]

\* onComplete (203-210).
onComplete ==
  /\ queue' = Append(queue, TerminalFrame(config))
  /\ UNCHANGED <<target, config, isPlaying, animationTimer, sinceChunk, pending>>
  /\ calls' = <<>>
  /\ threw' = FALSE
  /\ lastOp' = Done("onComplete")
  /\ sinceComplete' = TRUE
  /\ UNCHANGED <<mouth, sinceStop, env, aux>>

\* stop (213-221), called by the stream's error handler.
stop ==
  /\ StopBody(target)
  /\ UNCHANGED <<target, config, sinceChunk>>
  /\ lastOp' = Done("stop")
  /\ mouth' = MouthAfter(mouth, calls')
  /\ sinceStop' = TRUE
  /\ served' = served \cup Callees(calls')
  /\ UNCHANGED <<sinceComplete, nextTarget, registered, aux>>

\* Mutant: the wait for more chunks never ends.
GraceNever(since) == FALSE

\* Mutant: there is no grace window.
GraceNone(since) == TRUE

\* timeSinceLastChunk > 500 (line 284).
GraceExceeded(since) == since > Ms(GraceWindow)

\* animate (257-295), the callback cb run by the browser dt after the closure's
\* lastTime, the clock of Date.now() having advanced by dt as well.  A throw of the
\* target (271, 286) leaves the callback before line 287 and before the request of 294.
animate(cb, dt) ==
  LET others == pending \ {cb}
      held == cb.currentFrame # NoFrame
      remaining == IF held THEN cb.frameTimeRemaining - dt ELSE cb.frameTimeRemaining
      shape == IF held
               THEN applyMouthShape(target, cb.currentFrame[1].phoneme,
                                    EasedWeight(cb.currentFrame[1], remaining))
               ELSE <<>>
      switch == remaining <= 0
      nextFrame == IF ~switch THEN cb.currentFrame
                   ELSE IF queue # <<>> THEN <<Head(queue)>> ELSE NoFrame
      remainingAfter == IF switch /\ nextFrame # NoFrame THEN nextFrame[1].duration
                        ELSE remaining
      halt == switch /\ nextFrame = NoFrame /\ GraceExceeded(Saturate(sinceChunk + dt))
      reset == OptionalReset(target)
      shapeThrows == shape # <<>> /\ target \in faulty
  IN /\ cb \in pending
     /\ sinceChunk' = Saturate(sinceChunk + dt)
     /\ IF ~isPlaying
        THEN /\ pending' = others
             /\ calls' = <<>>
             /\ threw' = FALSE
             /\ UNCHANGED <<queue, isPlaying, animationTimer>>
        ELSE IF shapeThrows
        THEN /\ pending' = others
             /\ calls' = shape
             /\ threw' = TRUE
             /\ UNCHANGED <<queue, isPlaying, animationTimer>>
        ELSE /\ queue' = IF switch /\ queue # <<>> THEN Tail(queue) ELSE queue
             /\ IF halt
                THEN /\ calls' = shape \o reset.calls
                     /\ threw' = reset.threw
                     /\ isPlaying' = IF reset.threw THEN isPlaying ELSE FALSE
                     /\ pending' = others
                     /\ UNCHANGED animationTimer
                ELSE /\ calls' = shape
                     /\ threw' = FALSE
                     /\ UNCHANGED isPlaying
                     /\ animationTimer' = FreshId
                     /\ pending' = others \cup
                          {[id |-> FreshId,
                            frameTimeRemaining |-> remainingAfter,
                            currentFrame |-> nextFrame]}
     /\ UNCHANGED <<target, config>>
     /\ lastOp' = Done("animate")
     /\ mouth' = MouthAfter(mouth, calls')
     /\ served' = served \cup Callees(calls')
     /\ UNCHANGED <<sinceStop, sinceComplete, nextTarget, registered, aux>>

\* ------------------------------------------------------------- environment

\* The time from one display refresh to the next.
RefreshPeriods == {Ms(100)}

\* The chunks of the stream: "" and "你好" (both characters hash to A: one merged frame).
ChunkTexts == {<<>>, <<20320, 22909>>}

\* The phoneme arrays the backend attaches to a chunk.
ChunkPhonemes == {Absent, <<<<>>>>, <<<<"A", "N">>>>}

ChunkArrives ==
  \E text \in ChunkTexts : \E rnd \in RandomDraws(text) :
    /\ Len(queue) + Len(text) <= MaxQueue
    /\ processChunk(text, rnd)

PhonemeChunkArrives ==
  \E text \in ChunkTexts : \E phonemes \in ChunkPhonemes : \E rnd \in RandomDraws(text) :
    /\ Len(queue) + Len(text) <= MaxQueue
    /\ phonemes # Absent => Len(queue) + Len(phonemes[1]) <= MaxQueue
    /\ processChunkWithPhonemes(text, phonemes, rnd)

ConfigChanges == \E partial \in ConfigPartials : setConfig(partial)

StreamCompletes ==
  /\ Len(queue) < MaxQueue
  /\ onComplete

StreamFails == stop

\* A display refresh: the browser runs the requested callback.  While no callback
\* is requested nothing reads the clock before the next chunk stamps it, and time
\* passing is no step.
Refresh == \E dt \in RefreshPeriods : \E cb \in pending : animate(cb, dt)

Next ==
  \/ RegisterTarget
  \/ ClearTarget
  \/ ConfigChanges
  \/ ChunkArrives
  \/ PhonemeChunkArrives
  \/ StreamCompletes
  \/ StreamFails
  \/ Refresh

Spec == Init /\ [][Next]_vars

\* A stream of chunks of one character each, with the one phoneme the backend
\* found for it: E or O.  Such a chunk fits behind frames that still wait.
ShortChunkArrives ==
  \E phoneme \in {"E", "O"} :
    /\ Len(queue) + 1 <= MaxQueue
    /\ processChunkWithPhonemes(<<20320>>, <<<<phoneme>>>>, <<>>)

NextFifo ==
  \/ RegisterTarget
  \/ ClearTarget
  \/ ShortChunkArrives
  \/ ChunkArrives
  \/ StreamCompletes
  \/ StreamFails
  \/ Refresh

FifoSpec == Init /\ [][NextFifo]_vars

\* Configurations at the ends of their documented ranges: the shortest positive
\* durations the clock resolves, and speaking weights 0 and 1.
RangePartials ==
  {[charDuration |-> 1], [charDuration |-> Ms(100)], [transitionDuration |-> 1],
   [speakingWeight |-> 0], [speakingWeight |-> 100]}

RangeConfigChanges == \E partial \in RangePartials : setConfig(partial)

NextQueue ==
  \/ RegisterTarget
  \/ RangeConfigChanges
  \/ ChunkArrives
  \/ PhonemeChunkArrives
  \/ StreamCompletes
  \/ StreamFails

QueueSpec == Init /\ [][NextQueue]_vars

\* Display refreshes keep coming while a callback is requested.
LiveSpec == Spec /\ WF_vars(Refresh)

TypeOK ==
  /\ target \in {NoTarget} \cup Targets
  /\ isPlaying \in BOOLEAN
  /\ Len(queue) <= MaxQueue
  /\ \A i \in 1..Len(queue) : queue[i].phoneme \in Phonemes
  /\ sinceChunk \in 0..(Ms(GraceWindow) + 1)

\* ------------------------------------------- textToFrames as a pure function

\* 你 好 (A, A), 界 (I), 世 (N), a, A, b (a consonant), the comma, and an astral emoji.
Alphabet == {20320, 22909, 30028, 19990, 97, 65, 98, 44, 128512}

Texts == UNION {[1..n -> Alphabet] : n \in 0..MaxTextLen}

FunctionConfigs ==
  {DEFAULT_CONFIG, MergeConfig(DEFAULT_CONFIG, [charDuration |-> Ms(100)])}

InitText ==
  /\ InitController
  /\ fnIn \in {[text |-> text, cfg |-> cfg] : text \in Texts, cfg \in FunctionConfigs}
  /\ fnOut = <<>>
  /\ NoAdapters
  /\ NoRenderer

\* this.textToFrames(content) with this.config = fnIn.cfg.
ApplyTextToFrames ==
  /\ fnOut = <<>>
  /\ \E rnd \in RandomDraws(fnIn.text) :
       fnOut' = <<[rnd |-> rnd, frames |-> textToFrames(fnIn.text, rnd, fnIn.cfg)]>>
  /\ UNCHANGED <<ctl, env, obs, fnIn, faulty, adp, ldr, inst>>

NextText == ApplyTextToFrames

TextSpec == InitText /\ [][NextText]_vars

\* ------------------------------------------ targets whose methods can throw

\* The registered target starts to throw from setMouthShape and resetMouth.
TargetBreaks ==
  /\ target # NoTarget
  /\ target \notin faulty
  /\ faulty' = faulty \cup {target}
  /\ UNCHANGED <<ctl, env, obs, fn, adp, ldr, inst>>

NextThrow ==
  \/ RegisterTarget
  \/ ClearTarget
  \/ PhonemeChunkArrives
  \/ StreamCompletes
  \/ StreamFails
  \/ Refresh
  \/ TargetBreaks

ThrowSpec == Init /\ [][NextThrow]_vars

\* --------------------------------------- phonemesToFrames as a pure function

PhonemeArrays == UNION {[1..n -> Tags] : n \in 1..MaxPhonemes}

\* Texts of 你 (one UTF-16 unit) and an astral emoji (two units).
PhonemeTexts == UNION {[1..n -> {20320, 128512}] : n \in 0..MaxTextLen}

InitPhonemes ==
  /\ InitController
  /\ fnIn \in {[phonemes |-> ph, text |-> text, cfg |-> cfg] :
                 ph \in PhonemeArrays, text \in PhonemeTexts, cfg \in FunctionConfigs}
  /\ fnOut = <<>>
  /\ NoAdapters
  /\ NoRenderer

\* this.phonemesToFrames(phonemes, content.length) with this.config = fnIn.cfg.
ApplyPhonemesToFrames ==
  /\ fnOut = <<>>
  /\ fnOut' = <<[frames |-> phonemesToFrames(fnIn.phonemes, TextLength(fnIn.text),
                                             fnIn.cfg)]>>
  /\ UNCHANGED <<ctl, env, obs, fnIn, faulty, adp, ldr, inst>>

NextPhonemes == ApplyPhonemesToFrames

PhonemeSpec == InitPhonemes /\ [][NextPhonemes]_vars

\* ------------------------------------------- the chunks of one kind of stream

\* The entries a chunk's phoneme array is drawn from: tags of the Phoneme type, a
\* tag outside it, and an entry that is no string.
SuppliedTags == {"A", "N", "closed", "x", NonText}

SuppliedPhonemes ==
  {Absent, <<<<>>>>} \cup {<<ph>> : ph \in UNION {[1..n -> SuppliedTags] : n \in 1..MaxPhonemes}}

\* "", "你好" and "b".
SuppliedTexts == {<<>>, <<20320, 22909>>, <<98>>}

\* fnIn is the chunk the backend sends: its content and its phonemes.
InitChunk ==
  /\ InitController
  /\ fnIn \in {[text |-> text, phonemes |-> ph] :
                 text \in SuppliedTexts, ph \in SuppliedPhonemes}
  /\ fnOut = <<>>
  /\ NoAdapters
  /\ NoRenderer

SuppliedPartials == {[charDuration |-> Ms(100)], [speakingWeight |-> 50]}

SuppliedConfigChanges == \E partial \in SuppliedPartials : setConfig(partial)

\* The chunk handler of the chat stream, on a chunk of the stream's kind.  What it
\* appends does not depend on how far playback has got: no refresh is taken here.
SuppliedChunkArrives ==
  \E rnd \in RandomDraws(fnIn.text) :
    /\ Len(queue) + Len(fnIn.text) <= MaxQueue
    /\ fnIn.phonemes # Absent => Len(queue) + Len(fnIn.phonemes[1]) <= MaxQueue
    /\ processChunkWithPhonemes(fnIn.text, fnIn.phonemes, rnd)

NextChunk ==
  \/ RegisterTarget
  \/ SuppliedConfigChanges
  \/ SuppliedChunkArrives
  \/ StreamFails

ChunkSpec == InitChunk /\ [][NextChunk]_vars

\* ------------------------------------------------- mouth-shape adapters

\* Names of expressions and morphs are sequences of code points, as texts are.

\* VRM_MOUTH_SHAPES (324-332): aa a mouth_a vrc.v_aa fcl_mth_a, and so on.
VRM_MOUTH_SHAPES ==
  [A |-> <<<<97, 97>>,
          <<97>>,
          <<109, 111, 117, 116, 104, 95, 97>>,
          <<118, 114, 99, 46, 118, 95, 97, 97>>,
          <<102, 99, 108, 95, 109, 116, 104, 95, 97>>>>,
   E |-> <<<<101, 101>>,
          <<101>>,
          <<109, 111, 117, 116, 104, 95, 101>>,
          <<118, 114, 99, 46, 118, 95, 101, 101>>,
          <<102, 99, 108, 95, 109, 116, 104, 95, 101>>>>,
   I |-> <<<<105, 104>>,
          <<105>>,
          <<109, 111, 117, 116, 104, 95, 105>>,
          <<118, 114, 99, 46, 118, 95, 105, 104>>,
          <<102, 99, 108, 95, 109, 116, 104, 95, 105>>>>,
   O |-> <<<<111, 104>>,
          <<111>>,
          <<109, 111, 117, 116, 104, 95, 111>>,
          <<118, 114, 99, 46, 118, 95, 111, 104>>,
          <<102, 99, 108, 95, 109, 116, 104, 95, 111>>>>,
   U |-> <<<<111, 117>>,
          <<117>>,
          <<109, 111, 117, 116, 104, 95, 117>>,
          <<118, 114, 99, 46, 118, 95, 111, 117>>,
          <<102, 99, 108, 95, 109, 116, 104, 95, 117>>>>,
   N |-> <<<<110, 110>>,
          <<110>>>>,
   closed |-> <<>>]

\* MMD_MOUTH_SHAPES (335-343): the kana あ え い お う ん, each with its Latin letter.
MMD_MOUTH_SHAPES ==
  [A |-> <<<<12354>>,
          <<97>>>>,
   E |-> <<<<12360>>,
          <<101>>>>,
   I |-> <<<<12356>>,
          <<105>>>>,
   O |-> <<<<12362>>,
          <<111>>>>,
   U |-> <<<<12358>>,
          <<117>>>>,
   N |-> <<<<12435>>,
          <<110>>>>,
   closed |-> <<>>]

MappedPhonemes == <<"A", "E", "I", "O", "U", "N">>

\* e.toLowerCase() (353).
LowerName(e) == [i \in DOMAIN e |-> ToLowerCase(e[i])]

\* e.includes(candidate) (363).
Includes(e, candidate) ==
  \E i \in 1..(Len(e) - Len(candidate) + 1) :
    SubSeq(e, i, i + Len(candidate) - 1) = candidate

\* lowerExpressions.findIndex(...) (362-364): 0 stands for -1.
FindIndex(lowerExpressions, candidate) ==
  LET hits == {i \in DOMAIN lowerExpressions :
                 \/ lowerExpressions[i] = candidate
                 \/ Includes(lowerExpressions[i], candidate)}
  IN IF hits = {} THEN 0 ELSE CHOOSE i \in hits : \A j \in hits : i <= j

\* findShape (356-370) from the k-th candidate on: <<>> is null.
RECURSIVE FindShapeFrom(_, _, _)
FindShapeFrom(availableExpressions, candidates, k) ==
  IF k > Len(candidates) THEN <<>>
  ELSE LET index == FindIndex([i \in DOMAIN availableExpressions |->
                                 LowerName(availableExpressions[i])], candidates[k])
       IN IF index # 0 THEN <<availableExpressions[index]>>
          ELSE FindShapeFrom(availableExpressions, candidates, k + 1)

findShape(availableExpressions, phoneme) ==
  FindShapeFrom(availableExpressions, VRM_MOUTH_SHAPES[phoneme], 1)

\* shapeMap (373-380): the phonemes that have a shape.
ShapeMapOf(availableExpressions) ==
  [p \in {q \in {MappedPhonemes[i] : i \in DOMAIN MappedPhonemes} :
            findShape(availableExpressions, q) # <<>>}
     |-> findShape(availableExpressions, p)[1]]

\* createVRMLipSyncAdapter (348-415): the closure, and the weight setExpression
\* last gave each expression.
createVRMLipSyncAdapter(availableExpressions) ==
  [shapeMap |-> ShapeMapOf(availableExpressions),
   lastPhoneme |-> "closed",
   weights |-> [e \in {availableExpressions[i] : i \in DOMAIN availableExpressions} |-> 0]]

Write(name, weight) == [name |-> name, weight |-> weight]

\* The weights after the writes ws, in order.
RECURSIVE AfterWrites(_, _)
AfterWrites(weights, ws) ==
  IF ws = <<>> THEN weights
  ELSE AfterWrites([weights EXCEPT ![Head(ws).name] = Head(ws).weight], Tail(ws))

\* Mutant: the previous shape is left as it is.
VrmKeepLast(a, phoneme) == <<>>

\* Lines 389-394: the previous phoneme's shape is set to 0.
VrmClearLast(a, phoneme) ==
  IF /\ a.lastPhoneme # phoneme
     /\ a.lastPhoneme # "closed"
     /\ a.lastPhoneme \in DOMAIN a.shapeMap
  THEN <<Write(a.shapeMap[a.lastPhoneme], 0)>>
  ELSE <<>>

\* Lines 397-400.
VrmSetNew(a, phoneme, weight) ==
  IF phoneme \in DOMAIN a.shapeMap
  THEN <<Write(a.shapeMap[phoneme], weight)>>
  ELSE <<>>

\* Lines 406-411.
VrmResetWrites(a) ==
  IF a.lastPhoneme # "closed" /\ a.lastPhoneme \in DOMAIN a.shapeMap
  THEN <<Write(a.shapeMap[a.lastPhoneme], 0)>>
  ELSE <<>>

\* The record of a call on an adapter: its writes, and the call before it.
Called(name, phoneme, weight, ws) ==
  [op |-> name, phoneme |-> phoneme, weight |-> weight, writes |-> ws,
   prev |-> [op |-> adapterCall.op, writes |-> adapterCall.writes]]

NoCall ==
  [op |-> "create", phoneme |-> "closed", weight |-> 0, writes |-> <<>>,
   prev |-> [op |-> "create", writes |-> <<>>]]

\* The weights the scheduler passes (clamped to [0, 1], line 305), in percent.
AdapterWeights == {0, 35, 70}

\* setMouthShape of the VRM adapter (387-403).
VrmSetMouthShape(phoneme, weight) ==
  LET a == vrm[1]
      ws == VrmClearLast(a, phoneme) \o VrmSetNew(a, phoneme, weight)
  IN /\ vrm # <<>>
     /\ vrm' = <<[a EXCEPT !.weights = AfterWrites(a.weights, ws),
                           !.lastPhoneme = phoneme]>>
     /\ adapterCall' = Called("setMouthShape", phoneme, weight, ws)
     /\ UNCHANGED <<ctl, env, obs, fn, faulty, mmd, ldr, inst>>

\* resetMouth of the VRM adapter (405-413).
VrmResetMouth ==
  LET a == vrm[1]
      ws == VrmResetWrites(a)
  IN /\ vrm # <<>>
     /\ vrm' = <<[a EXCEPT !.weights = AfterWrites(a.weights, ws),
                           !.lastPhoneme = "closed"]>>
     /\ adapterCall' = Called("resetMouth", "closed", 0, ws)
     /\ UNCHANGED <<ctl, env, obs, fn, faulty, mmd, ldr, inst>>

\* findMorphIndex (427-435).
RECURSIVE FindMorphFrom(_, _, _)
FindMorphFrom(dict, candidates, k) ==
  IF k > Len(candidates) THEN -1
  ELSE IF candidates[k] \in DOMAIN dict THEN dict[candidates[k]]
  ELSE FindMorphFrom(dict, candidates, k + 1)

findMorphIndex(dict, phoneme) == FindMorphFrom(dict, MMD_MOUTH_SHAPES[phoneme], 1)

\* influences[index] !== undefined: the array holds the index (indices count from 0).
Defined(influences, index) == index >= 0 /\ index < Len(influences)

\* createMMDLipSyncAdapter (420-461): the closure and the mesh's influences; a mesh
\* without dictionary or influences gives the empty ones (423-424).
createMMDLipSyncAdapter(mesh) ==
  [dict |-> mesh.morphTargetDictionary,
   influences |-> mesh.morphTargetInfluences,
   lastIndex |-> -1]

\* Mutant: the morph driven last is not set to 0.
MmdResetNothing(a) == <<>>

\* Lines 442-444 and 455-457: the morph driven last is set to 0.
MmdClearLast(a) ==
  IF a.lastIndex # -1 /\ Defined(a.influences, a.lastIndex)
  THEN <<Write(a.lastIndex + 1, 0)>>
  ELSE <<>>

\* setMouthShape of the MMD adapter (440-452).
MmdSetMouthShape(phoneme, weight) ==
  LET a == mmd[1]
      index == findMorphIndex(a.dict, phoneme)
      found == index # -1 /\ Defined(a.influences, index)
      ws == MmdClearLast(a) \o (IF found THEN <<Write(index + 1, weight)>> ELSE <<>>)
  IN /\ mmd # <<>>
     /\ mmd' = <<[a EXCEPT !.influences = AfterWrites(a.influences, ws),
                           !.lastIndex = IF found THEN index ELSE a.lastIndex]>>
     /\ adapterCall' = Called("setMouthShape", phoneme, weight, ws)
     /\ UNCHANGED <<ctl, env, obs, fn, faulty, vrm, ldr, inst>>

\* resetMouth of the MMD adapter (454-459).
MmdResetMouth ==
  LET a == mmd[1]
      ws == MmdClearLast(a)
  IN /\ mmd # <<>>
     /\ mmd' = <<[a EXCEPT !.influences = AfterWrites(a.influences, ws),
                           !.lastIndex = -1]>>
     /\ adapterCall' = Called("resetMouth", "closed", 0, ws)
     /\ UNCHANGED <<ctl, env, obs, fn, faulty, vrm, ldr, inst>>

\* The expressions of the models loaded: none; aa ih ou ee oh; mouth_a (the shape
\* of A, O and U); Fcl_MTH_A Fcl_MTH_I Fcl_MTH_U; happy angry neutral (E and U
\* share neutral).
ExpressionLists ==
  {<<>>,
   <<<<97, 97>>, <<105, 104>>, <<111, 117>>, <<101, 101>>, <<111, 104>>>>,
   <<<<109, 111, 117, 116, 104, 95, 97>>>>,
   <<<<70, 99, 108, 95, 77, 84, 72, 95, 65>>,
     <<70, 99, 108, 95, 77, 84, 72, 95, 73>>,
     <<70, 99, 108, 95, 77, 84, 72, 95, 85>>>>,
   <<<<104, 97, 112, 112, 121>>,
     <<97, 110, 103, 114, 121>>,
     <<110, 101, 117, 116, 114, 97, 108>>>>}

\* The meshes loaded: without morphs; あ い ん at 0 1 2; あ and お on one index; い
\* at an index the influences do not hold; the Latin names a and n.
Meshes ==
  {[morphTargetDictionary |-> <<>>, morphTargetInfluences |-> <<>>],
   [morphTargetDictionary |-> (<<12354>> :> 0) @@ (<<12356>> :> 1) @@ (<<12435>> :> 2),
    morphTargetInfluences |-> <<0, 0, 0>>],
   [morphTargetDictionary |-> (<<12354>> :> 0) @@ (<<12362>> :> 0) @@ (<<12358>> :> 1),
    morphTargetInfluences |-> <<0, 0>>],
   [morphTargetDictionary |-> (<<12354>> :> 0) @@ (<<12356>> :> 5),
    morphTargetInfluences |-> <<0, 0>>],
   [morphTargetDictionary |-> (<<97>> :> 1) @@ (<<110>> :> 0),
    morphTargetInfluences |-> <<0, 0>>]}

\* A renderer's setupLipSync has created one adapter.
InitAdapter ==
  /\ InitController
  /\ fnIn = <<>>
  /\ fnOut = <<>>
  /\ adapterCall = NoCall
  /\ NoCanvas
  /\ NoRenderer
  /\ \/ /\ vrm \in {<<createVRMLipSyncAdapter(es)>> : es \in ExpressionLists}
        /\ mmd = <<>>
     \/ /\ vrm = <<>>
        /\ mmd \in {<<createMMDLipSyncAdapter(mesh)>> : mesh \in Meshes}

NextAdapter ==
  \/ \E phoneme \in Phonemes : \E weight \in AdapterWeights : VrmSetMouthShape(phoneme, weight)
  \/ VrmResetMouth
  \/ \E phoneme \in Phonemes : \E weight \in AdapterWeights : MmdSetMouthShape(phoneme, weight)
  \/ MmdResetMouth

AdapterSpec == InitAdapter /\ [][NextAdapter]_vars

\* ------------------------------------------------ ThreeCanvas and its renderers
\* A load is identified by the renderer initRenderer creates for it; the adapter
\* that renderer registers carries the same number. Each action is one browser
\* task: the continuations after an await that has settled run as microtasks
\* before any other timer, animation frame or event is served.

\* The models a canvas is given: the renderer's format and whether the file has
\* mouth shapes (an MMD mesh always gets an adapter).
LoadKinds ==
  {[type |-> "gltf", mouth |-> TRUE], [type |-> "gltf", mouth |-> FALSE],
   [type |-> "fbx", mouth |-> TRUE], [type |-> "mmd", mouth |-> TRUE]}

\* Mutant: unloadModel leaves the controller's registration alone.
UnloadKeepsTarget == <<>>

\* What unloadModel passes to lipSyncController.setTarget, whichever adapter is
\* registered there.
UnloadCalls == <<NoTarget>>

\* dispose(): unloadModel drops the renderer's adapter, then the scene is released.
dispose(r) == [r EXCEPT !.adapter = FALSE, !.scene = FALSE, !.disposed = TRUE]

\* abortControllerRef.current.abort(), when the ref holds a controller.
Abort(ls) ==
  IF canvas.controller # 0 THEN [ls EXCEPT ![canvas.controller].aborted = TRUE] ELSE ls

\* rendererRef.current.dispose(), when the ref holds a renderer.
DisposeCurrent(ls) ==
  IF canvas.rendererRef # 0 THEN [ls EXCEPT ![canvas.rendererRef] = dispose(@)] ELSE ls

\* The setTarget calls the renderers make in one task, in order. setTarget(t) for
\* an adapter t only assigns the field, so calls that end with setTarget(null)
\* leave what setTarget(null) alone leaves.
RendererSetsTarget(seq) ==
  IF seq = <<>>
  THEN UNCHANGED <<ctl, registered, served, obs>>
  ELSE /\ setTarget(seq[Len(seq)])
       /\ registered' = seq[Len(seq)]

\* The store's setError.
setError(s, k) == [s EXCEPT !.error = k, !.isLoading = FALSE]

Logged(name, k, events, thrown, set) ==
  [op |-> name, id |-> k, aborted |-> k # 0 /\ loads[k].aborted, emitted |-> events,
   threw |-> thrown, setError |-> set]

\* The store's loadModel gives the canvas a new path or format: the effect's
\* cleanup runs if the canvas was mounted, then the effect, which leaves
\* initRenderer to a timeout.
SwitchModel(kind) ==
  /\ nextTarget <= MaxTargets
  /\ store' = [store EXCEPT !.isLoading = TRUE, !.isLoaded = FALSE, !.error = 0]
  /\ loads' = DisposeCurrent(Abort(loads))
  /\ canvas' = [canvas EXCEPT !.mounted = TRUE, !.rendererRef = 0,
                              !.isInitializing = FALSE, !.timer = TRUE, !.props = kind]
  /\ RendererSetsTarget(IF canvas.rendererRef # 0 THEN UnloadCalls ELSE <<>>)
  /\ loadLog' = Logged("switch", 0, {}, FALSE, FALSE)
  /\ UNCHANGED <<nextTarget, fn, faulty, adp, inst>>

\* The store's unloadModel (or a switch to another viewer) unmounts the canvas:
\* the effect's cleanup runs, and the next canvas starts with empty refs.
Unmount ==
  /\ canvas.mounted
  /\ store' = [store EXCEPT !.isLoading = FALSE, !.isLoaded = FALSE, !.modelInfo = 0]
  /\ loads' = DisposeCurrent(Abort(loads))
  /\ canvas' = [canvas EXCEPT !.mounted = FALSE, !.rendererRef = 0, !.controller = 0,
                              !.isInitializing = FALSE, !.timer = FALSE]
  /\ RendererSetsTarget(IF canvas.rendererRef # 0 THEN UnloadCalls ELSE <<>>)
  /\ loadLog' = Logged("unmount", 0, {}, FALSE, FALSE)
  /\ UNCHANGED <<nextTarget, fn, faulty, adp, inst>>

\* initRenderer up to its await, and the renderer's load() up to its first await:
\* the scene exists before loadAsync in the GLTF and FBX renderers, and only after
\* ensureAmmoInit in the MMD renderer. The effect has reset isInitializing before
\* the timeout fires.
InitRenderer ==
  /\ canvas.timer
  /\ ~canvas.isInitializing
  /\ nextTarget <= MaxTargets
  /\ LET k == nextTarget
         ls == DisposeCurrent(Abort(loads))
     IN /\ loads' = [ls EXCEPT ![k] =
                       [NotCreated EXCEPT !.kind = canvas.props,
                                          !.pc = IF canvas.props.type = "mmd"
                                                 THEN "ammo" ELSE "loading",
                                          !.scene = canvas.props.type # "mmd"]]
        /\ canvas' = [canvas EXCEPT !.timer = FALSE, !.controller = k,
                                    !.isInitializing = TRUE, !.rendererRef = k]
        /\ nextTarget' = k + 1
        /\ loadLog' = Logged("init", 0, {}, FALSE, FALSE)
  /\ store' = [store EXCEPT !.isLoading = TRUE]
  /\ RendererSetsTarget(IF canvas.rendererRef # 0 THEN UnloadCalls ELSE <<>>)
  /\ UNCHANGED <<fn, faulty, adp, inst>>

\* MMD load() after ensureAmmoInit: the scene is created when there is none, also
\* when dispose() released it meanwhile; then loadAsync is awaited.
AmmoReady(k) ==
  /\ loads[k].pc = "ammo"
  /\ loads' = [loads EXCEPT ![k].pc = "loading", ![k].scene = TRUE]
  /\ loadLog' = Logged("ammo", k, {}, FALSE, FALSE)
  /\ UNCHANGED <<ctl, env, obs, fn, faulty, adp, store, canvas, inst>>

\* What initRenderer does after its await returned or threw: an aborted load's
\* renderer is disposed when load() returned, and nothing is done when it threw;
\* otherwise the flag is reset, after setError when load() threw.
AfterLoad(k, r, thrown) ==
  [renderer |-> IF loads[k].aborted /\ ~thrown THEN dispose(r) ELSE r,
   calls |-> IF loads[k].aborted /\ ~thrown THEN UnloadCalls ELSE <<>>,
   isInitializing |-> loads[k].aborted /\ canvas.isInitializing,
   setError |-> ~loads[k].aborted /\ thrown]

\* loadAsync resolved. With the scene released, the FBX renderer returns and the
\* GLTF and MMD renderers throw from this.scene!.add, emit 'error' and rethrow;
\* with a scene, the model is added, setupLipSync registers the adapter and
\* 'loaded' is emitted, whose handler sets the store's model info and loaded flag.
LoadResolves(k) ==
  /\ loads[k].pc = "loading"
  /\ LET r == loads[k]
         silent == ~r.scene /\ r.kind.type = "fbx"
         thrown == ~r.scene /\ r.kind.type # "fbx"
         loaded == r.scene
         registers == loaded /\ (r.kind.type = "mmd" \/ r.kind.mouth)
         after == AfterLoad(k, [r EXCEPT !.pc = IF thrown THEN "failed" ELSE "done",
                                         !.adapter = registers], thrown)
         s1 == IF loaded
               THEN [store EXCEPT !.modelInfo = k, !.isLoaded = TRUE, !.isLoading = FALSE]
               ELSE IF thrown THEN setError(store, k) ELSE store
     IN /\ loads' = [loads EXCEPT ![k] = after.renderer]
        /\ store' = IF after.setError THEN setError(s1, k) ELSE s1
        /\ canvas' = [canvas EXCEPT !.isInitializing = after.isInitializing]
        /\ RendererSetsTarget((IF registers THEN <<k>> ELSE <<>>) \o after.calls)
        /\ loadLog' = Logged("resolve", k,
                             IF loaded THEN {"loaded"} ELSE IF thrown THEN {"error"} ELSE {},
                             thrown, thrown)
  /\ UNCHANGED <<nextTarget, fn, faulty, adp, inst>>

\* loadAsync rejected (the file is missing or malformed): load() emits 'error',
\* whose handler sets the store's error, and rethrows.
LoadRejects(k) ==
  /\ loads[k].pc = "loading"
  /\ LET after == AfterLoad(k, [loads[k] EXCEPT !.pc = "failed"], TRUE)
     IN /\ loads' = [loads EXCEPT ![k] = after.renderer]
        /\ store' = setError(store, k)
        /\ canvas' = [canvas EXCEPT !.isInitializing = after.isInitializing]
        /\ RendererSetsTarget(after.calls)
        /\ loadLog' = Logged("reject", k, {"error"}, TRUE, TRUE)
  /\ UNCHANGED <<nextTarget, fn, faulty, adp, inst>>

NextLoad ==
  \/ \E kind \in LoadKinds : SwitchModel(kind)
  \/ Unmount
  \/ InitRenderer
  \/ \E k \in Targets : AmmoReady(k)
  \/ \E k \in Targets : LoadResolves(k)
  \/ \E k \in Targets : LoadRejects(k)
  \/ ChunkArrives
  \/ Refresh

LoadSpec == Init /\ [][NextLoad]_vars

\* ------------------------------------------------------- one renderer adapter
\* The adapter's public operations and the continuations of load() after each of
\* its awaits. A file is "valid" (loadAsync resolves; the model has animations,
\* outfit parts and mouth shapes) or "missing" (loadAsync rejects).

RendererKinds == {"gltf", "vrm", "fbx", "mmd", "live2d"}

Files == {"valid", "missing"}

\* unloadModel() removes the referenced model: the three.js adapters only while
\* they have a scene, the Live2D adapter whenever it references one.
Removes(r) == r.model # 0 /\ (r.kind = "live2d" \/ r.scene)

\* Mutant: the flags and the metadata survive unloadModel().
UnloadKeepsFlags(r) ==
  [r EXCEPT !.lipSyncAdapter = 0, !.animations = FALSE, !.helper = 0,
            !.outfitParts = FALSE,
            !.attached = IF Removes(r) THEN @ \ {r.model} ELSE @,
            !.released = IF Removes(r) THEN @ \cup {r.model} ELSE @,
            !.model = IF Removes(r) THEN 0 ELSE @]

\* Mutant: the previous model stays in the scene.
UnloadLeavesModel(r) ==
  [r EXCEPT !.lipSyncAdapter = 0, !.animations = FALSE, !.helper = 0,
            !.outfitParts = FALSE, !.model = 0, !.isLoaded = FALSE, !.metadata = 0]

\* The adapter after unloadModel(). The Live2D adapter has no lip-sync adapter,
\* mixer or caches, and these fields are always empty there.
unloadModel(r) ==
  [r EXCEPT !.lipSyncAdapter = 0, !.animations = FALSE, !.helper = 0,
            !.outfitParts = FALSE,
            !.attached = IF Removes(r) THEN @ \ {r.model} ELSE @,
            !.released = IF Removes(r) THEN @ \cup {r.model} ELSE @,
            !.model = IF Removes(r) THEN 0 ELSE @,
            !.isLoaded = FALSE, !.metadata = 0]

\* Mutant: the model is torn down before the lip-sync target is released.
UnloadReleasesLate(r) ==
  (IF Removes(r) THEN <<"remove", "release">> ELSE <<>>)
    \o <<"setTarget", "animations", "outfitParts", "flags">>

\* The statements of unloadModel() that have an effect, in program order:
\* setTarget(null), the animation and outfit caches, the model's removal from the
\* scene and the disposal of its resources, the loaded flag and metadata.
unloadEffects(r) ==
  (IF r.kind # "live2d" THEN <<"setTarget">> ELSE <<>>)
    \o <<"animations">>
    \o (IF r.kind # "live2d" THEN <<"outfitParts">> ELSE <<>>)
    \o (IF Removes(r) THEN <<"remove", "release">> ELSE <<>>)
    \o <<"flags">>

\* What the adapter's unloadModel() passes to lipSyncController.setTarget.
UnloadCallsOf(r) == IF r.kind # "live2d" THEN UnloadCalls ELSE <<>>

\* The load() calls that have not settled.
InFlight == {j \in Targets : flights[j].pc \in {"first", "loading"}}

\* load(path) up to its first await: a referenced model is unloaded; the GLTF,
\* VRM and FBX adapters create the scene if there is none and await loadAsync, the
\* MMD and Live2D adapters first await ensureAmmoInit and the dynamic import.
load(file) ==
  /\ nextTarget <= MaxTargets
  /\ LET j == nextTarget
         unloads == rdr.model # 0
         r == IF unloads THEN unloadModel(rdr) ELSE rdr
         first == rdr.kind \in {"mmd", "live2d"}
     IN /\ rdr' = IF first THEN r ELSE [r EXCEPT !.scene = TRUE]
        /\ flights' = [flights EXCEPT ![j] = [pc |-> IF first THEN "first" ELSE "loading",
                                              file |-> file]]
        /\ rlog' = [op |-> "load", id |-> j, outcome |-> Returned(<<>>),
                    effects |-> IF unloads THEN unloadEffects(rdr) ELSE <<>>]
        /\ RendererSetsTarget(IF unloads THEN UnloadCallsOf(rdr) ELSE <<>>)
        /\ nextTarget' = j + 1
  /\ UNCHANGED <<fn, faulty, adp, ldr, ipc, eventHandlers, emitLog, expr>>

\* load() after its first await: the scene (the PixiJS application) is created if
\* there is none, the MMD adapter creates its animation helper, and loadAsync
\* (Live2DModel.from) is awaited.
AfterFirstAwait(j) ==
  /\ flights[j].pc = "first"
  /\ rdr' = [rdr EXCEPT !.scene = TRUE, !.helper = IF rdr.kind = "mmd" THEN j ELSE @]
  /\ flights' = [flights EXCEPT ![j].pc = "loading"]
  /\ rlog' = [op |-> "first", id |-> j, effects |-> <<>>, outcome |-> Returned(<<>>)]
  /\ UNCHANGED <<ctl, env, obs, fn, faulty, adp, ldr, ipc, eventHandlers, emitLog, expr>>

\* load() after loadAsync resolved: the model is referenced; without a scene the
\* FBX adapter returns and the others throw a TypeError; with one the model is
\* attached (the MMD adapter then throws if unloadModel() dropped its helper), the
\* mixer, caches and lip-sync adapter are set up and 'loaded' is emitted. The
\* catch emits 'error' and rethrows.
loadAsyncResolves(j) ==
  /\ flights[j].pc = "loading"
  /\ flights[j].file = "valid"
  /\ LET r == [rdr EXCEPT !.model = j]
         three == rdr.kind # "live2d"
         returns == ~rdr.scene /\ rdr.kind = "fbx"
         attaches == rdr.scene
         throws == (~rdr.scene /\ rdr.kind # "fbx") \/ (rdr.kind = "mmd" /\ rdr.helper = 0)
         completes == attaches /\ ~throws
     IN /\ rdr' = IF completes
                  THEN [r EXCEPT !.attached = @ \cup {j},
                                 !.helper = IF rdr.kind \in {"mmd", "live2d"} THEN @ ELSE j,
                                 !.animations = three, !.outfitParts = three,
                                 !.lipSyncAdapter = IF three THEN j ELSE 0,
                                 !.metadata = j, !.loop = three \/ @, !.isLoaded = TRUE]
                  ELSE IF attaches THEN [r EXCEPT !.attached = @ \cup {j}] ELSE r
        /\ rlog' = [op |-> "settle", id |-> j, effects |-> <<>>,
                    outcome |-> IF throws THEN catchError("TypeError")
                                ELSE Returned(IF completes THEN <<"loaded">> ELSE <<>>)]
        /\ flights' = [flights EXCEPT ![j].pc = IF rlog'.outcome.rejection # "none"
                                                 THEN "rejected" ELSE "resolved"]
        /\ RendererSetsTarget(IF completes /\ three THEN <<j>> ELSE <<>>)
  /\ UNCHANGED <<nextTarget, fn, faulty, adp, ldr, ipc, eventHandlers, emitLog, expr>>

\* load() after loadAsync rejected: the catch emits 'error' and rethrows.
loadAsyncRejects(j) ==
  /\ flights[j].pc = "loading"
  /\ flights[j].file = "missing"
  /\ rlog' = [op |-> "settle", id |-> j, effects |-> <<>>,
              outcome |-> catchError("LoadError")]
  /\ flights' = [flights EXCEPT ![j].pc = IF rlog'.outcome.rejection # "none"
                                           THEN "rejected" ELSE "resolved"]
  /\ UNCHANGED <<ctl, env, obs, fn, faulty, adp, ldr, ipc, rdr, eventHandlers, emitLog, expr>>

\* A call of unloadModel().
UnloadModel ==
  /\ rdr' = unloadModel(rdr)
  /\ rlog' = [op |-> "unloadModel", id |-> 0, outcome |-> Returned(<<>>),
              effects |-> unloadEffects(rdr)]
  /\ RendererSetsTarget(UnloadCallsOf(rdr))
  /\ UNCHANGED <<nextTarget, fn, faulty, adp, ldr, ipc, flights, eventHandlers, emitLog, expr>>

\* A call of dispose(): unloadModel(), then the render loop is cancelled, the
\* scene (the application) is destroyed and 'disposed' is emitted. Callers
\* dispose an adapter once.
Dispose ==
  /\ ~rdr.disposed
  /\ rdr' = [unloadModel(rdr) EXCEPT !.loop = FALSE, !.scene = FALSE, !.disposed = TRUE]
  /\ rlog' = [op |-> "dispose", id |-> 0, outcome |-> Returned(<<"disposed">>),
              effects |-> unloadEffects(rdr) \o <<"surface">>]
  /\ RendererSetsTarget(UnloadCallsOf(rdr))
  /\ UNCHANGED <<nextTarget, fn, faulty, adp, ldr, ipc, flights, eventHandlers, emitLog, expr>>

InitRendererAdapter ==
  /\ InitController
  /\ fnIn = <<>>
  /\ fnOut = <<>>
  /\ NoAdapters
  /\ rdr \in {newRenderer(kind) : kind \in RendererKinds}
  /\ flights = [j \in Targets |-> NoFlight]
  /\ rlog = NoOperation
  /\ eventHandlers = <<>>
  /\ emitLog = <<>>
  /\ expr = <<>>
  /\ NoSubscribers

Settles ==
  \/ \E j \in Targets : AfterFirstAwait(j)
  \/ \E j \in Targets : loadAsyncResolves(j)
  \/ \E j \in Targets : loadAsyncRejects(j)

\* The caller awaits each load() before the next one and loads no disposed
\* adapter; unloadModel() and dispose() may come at any time.
NextRenderer ==
  \/ \E file \in Files : InFlight = {} /\ ~rdr.disposed /\ load(file)
  \/ Settles
  \/ UnloadModel
  \/ Dispose

RendererSpec == InitRendererAdapter /\ [][NextRenderer]_vars

\* load() may also be called while an earlier call is in flight.
NextOverlap ==
  \/ \E file \in Files : ~rdr.disposed /\ load(file)
  \/ Settles
  \/ UnloadModel
  \/ Dispose

OverlapSpec == InitRendererAdapter /\ [][NextOverlap]_vars

\* ------------------------------------------------- BaseModelRenderer's events
\* eventHandlers maps an event to a Set of handlers, which iterates in insertion
\* order; a handler is a function value, subscribed at most once per event.

RendererEvents == {"loaded", "error"}

\* The observers of an adapter; one of them throws whenever it is invoked.
Observers == {"canvas", "faulty", "logger"}

Throws(handler) == handler = "faulty"

\* Set.add: a handler already in the set keeps its place.
SetAdd(hs, handler) ==
  IF \E i \in DOMAIN hs : hs[i] = handler THEN hs ELSE Append(hs, handler)

\* Set.delete.
SetDelete(hs, handler) ==
  LET Other(h) == h # handler IN SelectSeq(hs, Other)

RECURSIVE FirstThrower(_, _)
FirstThrower(hs, i) ==
  IF i > Len(hs) THEN 0 ELSE IF Throws(hs[i]) THEN i ELSE FirstThrower(hs, i + 1)

\* Mutant: handlers are invoked without try/catch, so the first one that throws
\* ends the iteration and its exception leaves emit.
ForEachUnguarded(hs) ==
  IF FirstThrower(hs, 1) = 0
  THEN [invoked |-> hs, caught |-> <<>>, threw |-> FALSE]
  ELSE [invoked |-> SubSeq(hs, 1, FirstThrower(hs, 1)), caught |-> <<>>, threw |-> TRUE]

\* emit's forEach: every handler is invoked inside its own try/catch, which logs
\* what the handler throws.
ForEachGuarded(hs) ==
  [invoked |-> hs, caught |-> SelectSeq(hs, Throws), threw |-> FALSE]

\* on(event, handler); the unsubscribe function it returns is kept by the caller.
on(event, handler) ==
  /\ eventHandlers' = [eventHandlers EXCEPT ![event] = SetAdd(@, handler)]
  /\ emitLog' = [emitLog EXCEPT !.issued = @ \cup {<<event, handler>>},
                                !.live = @ \cup {<<event, handler>>}]
  /\ UNCHANGED <<ctl, env, obs, fn, faulty, adp, ldr, ipc, rdr, flights, rlog, expr>>

\* A call of the unsubscribe function on(event, handler) returned.
Unsubscribe(event, handler) ==
  /\ <<event, handler>> \in emitLog.issued
  /\ eventHandlers' = [eventHandlers EXCEPT ![event] = SetDelete(@, handler)]
  /\ emitLog' = [emitLog EXCEPT !.live = @ \ {<<event, handler>>}]
  /\ UNCHANGED <<ctl, env, obs, fn, faulty, adp, ldr, ipc, rdr, flights, rlog, expr>>

\* emit(event, data), as load() and setLoaded call it.
emit(event) ==
  /\ emitLog' = [emitLog EXCEPT !.last =
                   <<[event |-> event,
                      subscribed |-> {h \in Observers : <<event, h>> \in emitLog.live},
                      delivery |-> ForEachGuarded(eventHandlers[event])]>>]
  /\ UNCHANGED <<ctl, env, obs, fn, faulty, adp, ldr, ipc, rdr, flights, rlog, eventHandlers, expr>>

InitEvents ==
  /\ InitController
  /\ fnIn = <<>>
  /\ fnOut = <<>>
  /\ NoAdapters
  /\ rdr = newRenderer("none")
  /\ flights = [j \in Targets |-> NoFlight]
  /\ rlog = NoOperation
  /\ eventHandlers = [event \in RendererEvents |-> <<>>]
  /\ emitLog = [issued |-> {}, live |-> {}, last |-> <<>>]
  /\ expr = <<>>
  /\ NoSubscribers

NextEvents ==
  \/ \E event \in RendererEvents : \E handler \in Observers : on(event, handler)
  \/ \E event \in RendererEvents : \E handler \in Observers : Unsubscribe(event, handler)
  \/ \E event \in RendererEvents : emit(event)

EventSpec == InitEvents /\ [][NextEvents]_vars

\* ------------------------------------------------ the expression controllers
\* expr is the loaded model as its expression controller sees it: the VRM's
\* expression manager (expressionMap gives each expression its weight), or the
\* meshes with their morph targets (the dictionary of a mesh maps the name at
\* position i to index i - 1), and the last two calls made on the controller.

Neutral == <<110>>
Joy == <<106, 111, 121>>
JoyCapital == <<74, 111, 121>>
Sad == <<115, 97, 100>>
Brow == <<98, 114>>

\* The names a caller passes: exposed ones, a differently cased one, an unknown one.
ExprNames == {Neutral, Joy, JoyCapital, Sad, Brow}

\* Weights in percent; 100 is the default of the weight parameter.
ExprWeights == {0, 40, 100}

NewMesh(names) ==
  [morphTargetNames |-> names, morphTargetInfluences |-> [i \in DOMAIN names |-> 0]]

HasKey(mesh, key) ==
  \E i \in DOMAIN mesh.morphTargetNames : LowerName(mesh.morphTargetNames[i]) = key

\* extractMorphTargets of the glTF adapter: the meshes are traversed in order and
\* every entry of a dictionary is stored under its lowercased name, a later
\* entry replacing an earlier one with the same key.
morphTargetsOf(meshes) ==
  LET keys == UNION {{LowerName(meshes[m].morphTargetNames[i])
                        : i \in DOMAIN meshes[m].morphTargetNames} : m \in DOMAIN meshes}
      lastMesh(key) ==
        CHOOSE m \in DOMAIN meshes :
          /\ HasKey(meshes[m], key)
          /\ \A n \in DOMAIN meshes : HasKey(meshes[n], key) => n <= m
      lastEntry(mesh, key) ==
        CHOOSE i \in DOMAIN mesh.morphTargetNames :
          /\ LowerName(mesh.morphTargetNames[i]) = key
          /\ \A j \in DOMAIN mesh.morphTargetNames :
               LowerName(mesh.morphTargetNames[j]) = key => j <= i
  IN [key \in keys |->
        [mesh |-> lastMesh(key), index |-> lastEntry(meshes[lastMesh(key)], key) - 1]]

VrmModel(manager, names) ==
  [kind |-> "vrm", expressionManager |-> manager, expressionMap |-> [n \in names |-> 0],
   meshes |-> <<>>, morphTargets |-> <<>>, calls |-> <<>>]

GltfModel(meshes) ==
  [kind |-> "gltf", expressionManager |-> FALSE, expressionMap |-> <<>>,
   meshes |-> meshes, morphTargets |-> morphTargetsOf(meshes), calls |-> <<>>]

MmdModel(meshes) ==
  [kind |-> "mmd", expressionManager |-> FALSE, expressionMap |-> <<>>,
   meshes |-> meshes, morphTargets |-> <<>>, calls |-> <<>>]

\* The models loaded: a VRM with and without an expression manager; glTF scenes
\* with one face mesh whose names are capitalised, with two meshes that both
\* have a morph named joy, and without morph targets; an MMD mesh, and an MMD
\* adapter whose mesh is still null.
LoadedModels ==
  {VrmModel(TRUE, {Neutral, Joy, Sad}),
   VrmModel(TRUE, {Joy, Sad}),
   VrmModel(FALSE, {}),
   GltfModel(<<NewMesh(<<JoyCapital, Sad, Brow>>)>>),
   GltfModel(<<NewMesh(<<Joy, Sad>>), NewMesh(<<Brow, Joy>>)>>),
   GltfModel(<<>>),
   MmdModel(<<NewMesh(<<Joy, Sad, Brow>>)>>),
   MmdModel(<<>>)}

\* morphTargetDictionary[name] of an MMD mesh: the index, or -1 for undefined.
DictionaryIndex(mesh, name) ==
  IF \E i \in DOMAIN mesh.morphTargetNames : mesh.morphTargetNames[i] = name
  THEN (CHOOSE i \in DOMAIN mesh.morphTargetNames : mesh.morphTargetNames[i] = name) - 1
  ELSE -1

\* getAvailableExpressions.
getAvailableExpressions(e) ==
  CASE e.kind = "vrm" -> IF e.expressionManager THEN DOMAIN e.expressionMap ELSE {}
    [] e.kind = "gltf" -> DOMAIN e.morphTargets
    [] e.kind = "mmd" ->
         IF e.meshes = <<>> THEN {}
         ELSE {e.meshes[1].morphTargetNames[i] : i \in DOMAIN e.meshes[1].morphTargetNames}

\* The weight the model holds for an expression it exposes.
WeightOf(e, name) ==
  CASE e.kind = "vrm" -> e.expressionMap[name]
    [] e.kind = "gltf" ->
         e.meshes[e.morphTargets[name].mesh].morphTargetInfluences[e.morphTargets[name].index + 1]
    [] e.kind = "mmd" ->
         e.meshes[1].morphTargetInfluences[DictionaryIndex(e.meshes[1], name) + 1]

\* Mutant: the loop that zeroes the expressions is left out.
ZeroNone(e) == e

\* The forEach over Object.keys(expressionMap) with setValue(key, 0).
VrmZeroAll(e) ==
  [e EXCEPT !.expressionMap = [n \in DOMAIN e.expressionMap |-> 0]]

\* The forEach over this.morphTargets that zeroes each target's influence.
GltfZeroAll(e) ==
  [e EXCEPT !.meshes =
     [m \in DOMAIN e.meshes |->
        [e.meshes[m] EXCEPT !.morphTargetInfluences =
           [i \in DOMAIN e.meshes[m].morphTargetInfluences |->
              IF \E key \in DOMAIN e.morphTargets :
                   e.morphTargets[key] = [mesh |-> m, index |-> i - 1]
              THEN 0
              ELSE e.meshes[m].morphTargetInfluences[i]]]]]

\* The forEach over getAvailableExpressions() that zeroes the influence at each
\* name's dictionary index.
MmdZeroAll(e) ==
  [e EXCEPT !.meshes[1].morphTargetInfluences =
     [i \in DOMAIN e.meshes[1].morphTargetInfluences |->
        IF \E n \in getAvailableExpressions(e) : DictionaryIndex(e.meshes[1], n) = i - 1
        THEN 0
        ELSE e.meshes[1].morphTargetInfluences[i]]]

\* expression.setExpression of the VRM adapter; setValue on a name the manager
\* does not know changes nothing.
VrmSetExpression(e, name, weight) ==
  IF ~e.expressionManager THEN e
  ELSE LET zeroed == VrmZeroAll(e)
       IN IF name \in DOMAIN zeroed.expressionMap
          THEN [zeroed EXCEPT !.expressionMap[name] = weight]
          ELSE zeroed

\* expression.setExpression of the glTF adapter.
GltfSetExpression(e, name, weight) ==
  IF LowerName(name) \notin DOMAIN e.morphTargets THEN e
  ELSE LET slot == e.morphTargets[LowerName(name)]
       IN [GltfZeroAll(e) EXCEPT
             !.meshes[slot.mesh].morphTargetInfluences[slot.index + 1] = weight]

\* expression.setExpression of the MMD adapter.
MmdSetExpression(e, name, weight) ==
  IF e.meshes = <<>> THEN e
  ELSE LET found == DictionaryIndex(e.meshes[1], name)
       IN IF found = -1 THEN e
          ELSE [MmdZeroAll(e) EXCEPT !.meshes[1].morphTargetInfluences[found + 1] = weight]

\* The last two calls, the newest last.
Recorded(made, call) ==
  IF Len(made) < 2 THEN Append(made, call) ELSE <<made[2], call>>

setExpression(name, weight) ==
  /\ expr' =
       [(CASE expr.kind = "vrm" -> VrmSetExpression(expr, name, weight)
           [] expr.kind = "gltf" -> GltfSetExpression(expr, name, weight)
           [] expr.kind = "mmd" -> MmdSetExpression(expr, name, weight))
        EXCEPT !.calls =
          Recorded(expr.calls, [op |-> "setExpression", name |-> name, weight |-> weight])]
  /\ UNCHANGED <<ctl, env, obs, fn, faulty, adp, ldr, ipc, rdr, flights, rlog, eventHandlers, emitLog>>

\* expression.resetExpression: the VRM adapter zeroes every expression and sets
\* neutral to 1 when the model has it; the glTF adapter zeroes every morph
\* target; the MMD adapter zeroes every influence of the mesh.
resetExpression ==
  /\ expr' =
       [(CASE expr.kind = "vrm" ->
                IF ~expr.expressionManager THEN expr
                ELSE IF Neutral \in DOMAIN expr.expressionMap
                     THEN [VrmZeroAll(expr) EXCEPT !.expressionMap[Neutral] = 100]
                     ELSE VrmZeroAll(expr)
           [] expr.kind = "gltf" -> GltfZeroAll(expr)
           [] expr.kind = "mmd" ->
                IF expr.meshes = <<>> THEN expr
                ELSE [expr EXCEPT !.meshes[1].morphTargetInfluences =
                        [i \in DOMAIN expr.meshes[1].morphTargetInfluences |-> 0]])
        EXCEPT !.calls =
          Recorded(expr.calls, [op |-> "resetExpression", name |-> <<>>, weight |-> 0])]
  /\ UNCHANGED <<ctl, env, obs, fn, faulty, adp, ldr, ipc, rdr, flights, rlog, eventHandlers, emitLog>>

InitExpr ==
  /\ InitController
  /\ fnIn = <<>>
  /\ fnOut = <<>>
  /\ NoAdapters
  /\ rdr = newRenderer("none")
  /\ flights = [j \in Targets |-> NoFlight]
  /\ rlog = NoOperation
  /\ eventHandlers = <<>>
  /\ emitLog = <<>>
  /\ expr \in LoadedModels
  /\ NoSubscribers

NextExpr ==
  \/ \E name \in ExprNames : \E weight \in ExprWeights : setExpression(name, weight)
  \/ resetExpression

ExprSpec == InitExpr /\ [][NextExpr]_vars

\* ------------------------------------------------ the renderer registry
\* Paths are sequences of code points. fnIn is the registry's list of factories
\* and a path with the file behind it, fnOut the result of the operation applied.

\* "model.vrm"
ModelVrm == <<109, 111, 100, 101, 108, 46, 118, 114, 109>>
\* "model.glb"
ModelGlb == <<109, 111, 100, 101, 108, 46, 103, 108, 98>>
\* "model.gltf"
ModelGltf == <<109, 111, 100, 101, 108, 46, 103, 108, 116, 102>>
\* "avatar.fbx"
AvatarFbx == <<97, 118, 97, 116, 97, 114, 46, 102, 98, 120>>
\* "char.pmx"
CharPmx == <<99, 104, 97, 114, 46, 112, 109, 120>>
\* "scene.model3.json"
SceneModel3Json == <<115, 99, 101, 110, 101, 46, 109, 111, 100, 101, 108, 51, 46, 106, 115, 111, 110>>
\* "MODEL.GLB"
UpperGlb == <<77, 79, 68, 69, 76, 46, 71, 76, 66>>
\* "Model.VRM"
UpperVrm == <<77, 111, 100, 101, 108, 46, 86, 82, 77>>
\* "old.pmd"
OldPmd == <<111, 108, 100, 46, 112, 109, 100>>
\* "hero.model.json"
HeroModelJson == <<104, 101, 114, 111, 46, 109, 111, 100, 101, 108, 46, 106, 115, 111, 110>>
\* "notes.txt"
NotesTxt == <<110, 111, 116, 101, 115, 46, 116, 120, 116>>
\* "model3.json"
BareModel3Json == <<109, 111, 100, 101, 108, 51, 46, 106, 115, 111, 110>>

\* ".vrm"
DotVrm == <<46, 118, 114, 109>>
\* ".glb"
DotGlb == <<46, 103, 108, 98>>
\* ".gltf"
DotGltf == <<46, 103, 108, 116, 102>>
\* ".fbx"
DotFbx == <<46, 102, 98, 120>>
\* ".pmd"
DotPmd == <<46, 112, 109, 100>>
\* ".pmx"
DotPmx == <<46, 112, 109, 120>>
\* ".model.json"
DotModelJson == <<46, 109, 111, 100, 101, 108, 46, 106, 115, 111, 110>>
\* ".model3.json"
DotModel3Json == <<46, 109, 111, 100, 101, 108, 51, 46, 106, 115, 111, 110>>
\* "model.json"
ModelJson == <<109, 111, 100, 101, 108, 46, 106, 115, 111, 110>>

ModelPaths ==
  {ModelVrm, ModelGlb, ModelGltf, AvatarFbx, CharPmx, SceneModel3Json,
   UpperGlb, UpperVrm, OldPmd, HeroModelJson, NotesTxt, BareModel3Json}

\* The file behind a path: whether fetch succeeds, whether it starts with the
\* GLB magic, whether its first chunk is the JSON chunk, and which of the marker
\* strings its JSON text contains.
VrmMarkers == {"VRM", "VRMC_vrm", "VRMC_springBone"}

ModelFiles ==
  {[fetch |-> FALSE, glb |-> TRUE, jsonChunk |-> TRUE, markers |-> {"VRMC_vrm"}],
   [fetch |-> TRUE, glb |-> TRUE, jsonChunk |-> TRUE, markers |-> {"VRMC_vrm", "VRMC_springBone"}],
   [fetch |-> TRUE, glb |-> TRUE, jsonChunk |-> TRUE, markers |-> {"VRM"}],
   [fetch |-> TRUE, glb |-> TRUE, jsonChunk |-> TRUE, markers |-> {}],
   [fetch |-> TRUE, glb |-> TRUE, jsonChunk |-> FALSE, markers |-> {"VRMC_vrm"}],
   [fetch |-> TRUE, glb |-> FALSE, jsonChunk |-> FALSE, markers |-> {"VRMC_vrm"}],
   [fetch |-> TRUE, glb |-> FALSE, jsonChunk |-> FALSE, markers |-> {}]}

\* path.endsWith(suffix).
EndsWith(path, suffix) ==
  /\ Len(path) >= Len(suffix)
  /\ SubSeq(path, Len(path) - Len(suffix) + 1, Len(path)) = suffix

Live2DCanHandle(modelPath) ==
  EndsWith(modelPath, DotModelJson) \/ EndsWith(modelPath, DotModel3Json)

VrmCanHandle(modelPath) ==
  EndsWith(modelPath, DotVrm) \/ EndsWith(modelPath, DotGlb)

GltfCanHandle(modelPath) ==
  LET lower == LowerName(modelPath)
  IN IF EndsWith(lower, DotVrm) THEN FALSE
     ELSE EndsWith(lower, DotGltf) \/ EndsWith(lower, DotGlb)

FbxCanHandle(modelPath) == EndsWith(LowerName(modelPath), DotFbx)

MmdCanHandle(modelPath) ==
  LET lower == LowerName(modelPath)
  IN EndsWith(lower, DotPmd) \/ EndsWith(lower, DotPmx)

FactoryCanHandle(factory, modelPath) ==
  CASE factory = "live2d" -> Live2DCanHandle(modelPath)
    [] factory = "vrm" -> VrmCanHandle(modelPath)
    [] factory = "gltf" -> GltfCanHandle(modelPath)
    [] factory = "fbx" -> FbxCanHandle(modelPath)
    [] factory = "mmd" -> MmdCanHandle(modelPath)

\* createDefaultRendererRegistry: the factories in the order of their registration.
DefaultRegistry == <<"live2d", "vrm", "gltf", "fbx", "mmd">>

\* Mutant: the last factory that accepts the path wins.
FindLast(factories, modelPath) ==
  LET hits == {i \in DOMAIN factories : FactoryCanHandle(factories[i], modelPath)}
  IN IF hits = {} THEN "null"
     ELSE factories[CHOOSE i \in hits : \A j \in hits : i >= j]

\* this.factories.find(f => f.canHandle(modelPath)) ?? null.
Find(factories, modelPath) ==
  LET hits == {i \in DOMAIN factories : FactoryCanHandle(factories[i], modelPath)}
  IN IF hits = {} THEN "null"
     ELSE factories[CHOOSE i \in hits : \A j \in hits : i <= j]

\* detectVRMExtension of the model store: a failed fetch is caught and gives
\* false; a GLB is searched in its JSON chunk, any other file in its whole text.
detectVRMExtension(file) ==
  /\ file.fetch
  /\ file.glb => file.jsonChunk
  /\ file.markers \cap VrmMarkers # {}

\* The model type loadModel of the store derives from the path and the file.
DetectType(path, file) ==
  LET lowerPath == LowerName(path)
  IN IF EndsWith(lowerPath, DotVrm) THEN "vrm"
     ELSE IF EndsWith(lowerPath, DotGlb) \/ EndsWith(lowerPath, DotGltf)
       THEN (IF detectVRMExtension(file) THEN "vrm" ELSE "gltf")
     ELSE IF EndsWith(lowerPath, DotFbx) THEN "fbx"
     ELSE IF EndsWith(lowerPath, DotPmd) \/ EndsWith(lowerPath, DotPmx) THEN "mmd"
     ELSE "live2d"

InitFormat ==
  /\ InitController
  /\ fnIn \in {[factories |-> DefaultRegistry, path |-> path, file |-> file]
                : path \in ModelPaths, file \in ModelFiles}
  /\ fnOut = <<>>
  /\ NoAdapters
  /\ NoRenderer

\* registry.getFactory(path).
getFactory ==
  /\ fnOut = <<>>
  /\ fnOut' = <<[op |-> "getFactory", result |-> Find(fnIn.factories, fnIn.path)]>>
  /\ UNCHANGED <<ctl, env, obs, fnIn, faulty, adp, ldr, inst>>

\* registry.canHandle(path).
canHandle ==
  /\ fnOut = <<>>
  /\ fnOut' = <<[op |-> "canHandle",
                 result |-> \E i \in DOMAIN fnIn.factories :
                              FactoryCanHandle(fnIn.factories[i], fnIn.path)]>>
  /\ UNCHANGED <<ctl, env, obs, fnIn, faulty, adp, ldr, inst>>

\* useModelStore.loadModel(path) up to the model type it stores.
loadModelType ==
  /\ fnOut = <<>>
  /\ fnOut' = <<[op |-> "loadModel", result |-> DetectType(fnIn.path, fnIn.file)]>>
  /\ UNCHANGED <<ctl, env, obs, fnIn, faulty, adp, ldr, inst>>

NextFormat ==
  \/ getFactory
  \/ canHandle
  \/ loadModelType

FormatSpec == InitFormat /\ [][NextFormat]_vars

\* A registry built by register calls, in any order and with repetitions.
MaxFactories == 3

RendererFactories == {"live2d", "vrm", "gltf", "fbx", "mmd"}

InitRegistry ==
  /\ InitController
  /\ fnIn \in {[factories |-> <<>>, path |-> path, file |-> file]
                : path \in ModelPaths, file \in {CHOOSE file \in ModelFiles : file.fetch}}
  /\ fnOut = <<>>
  /\ NoAdapters
  /\ NoRenderer

\* registry.register(factory).
register(factory) ==
  /\ fnOut = <<>>
  /\ Len(fnIn.factories) < MaxFactories
  /\ fnIn' = [fnIn EXCEPT !.factories = Append(@, factory)]
  /\ UNCHANGED <<ctl, env, obs, fnOut, faulty, adp, ldr, inst>>

\* registry.createRenderer(path, container): factory?.create(container) ?? null;
\* create constructs the adapter of the factory's kind.
createRenderer ==
  /\ fnOut = <<>>
  /\ LET factory == Find(fnIn.factories, fnIn.path)
     IN fnOut' = <<[op |-> "createRenderer",
                    result |-> IF factory = "null" THEN "null"
                               ELSE [modelType |-> factory]]>>
  /\ UNCHANGED <<ctl, env, obs, fnIn, faulty, adp, ldr, inst>>

NextRegistry ==
  \/ \E factory \in RendererFactories : register(factory)
  \/ getFactory
  \/ createRenderer
  \/ canHandle

RegistrySpec == InitRegistry /\ [][NextRegistry]_vars

\* ------------------------------------------------ safe subscribers of the event bus
\* Each subscriber is one call of createSafeSubscriber for the same event.
\* listen() sends a request to the backend, which registers the handler and
\* answers; the answer resolves the promise, and the rest of subscribe() and
\* the then-callback run as microtasks of that task. The backend delivers an
\* event to the handlers it has registered and not removed.

MaxSubscribers == 2
Subscribers == 1..MaxSubscribers

\* How often a caller may call the cancel function it was given.
MaxCancels == 2

NewSubscriber ==
  [pc |-> "unused", unsubscribe |-> FALSE, isUnsubscribed |-> FALSE, cancels |-> 0]

\* The closure subscribe() returns: unlisten(), then the listeners array of the
\* event is filtered.
Unsub(b, i) ==
  [b EXCEPT !.handlers[i] = "removed",
            !.unlistens[i] = @ + 1,
            !.listeners = SelectSeq(@, LAMBDA j : j # i)]

\* Mutant: the then-callback keeps the closure whether or not cancel was called.
ThenKeeps(isUnsubscribed) == [calls |-> FALSE, keeps |-> TRUE]

\* The then-callback: unsub() is called at once if cancel was called before,
\* and kept in the closure's unsubscribe otherwise.
ThenCallback(isUnsubscribed) ==
  [calls |-> isUnsubscribed, keeps |-> ~isUnsubscribed]

\* createSafeSubscriber(eventName, callback) up to its return: subscribe() is
\* called and awaits listen().
createSafeSubscriber(i) ==
  /\ subs[i].pc = "unused"
  /\ subs' = [subs EXCEPT ![i].pc = "subscribing"]
  /\ UNCHANGED bus

\* The backend registers the handler of a pending listen().
ListenRegisters(i) ==
  /\ subs[i].pc = "subscribing"
  /\ bus.handlers[i] = "none"
  /\ bus' = [bus EXCEPT !.handlers[i] = "listening"]
  /\ UNCHANGED subs

\* listen() resolves: subscribe() pushes unlisten onto the listeners of the event
\* and returns its closure, and the then-callback runs.
ListenResolves(i) ==
  /\ subs[i].pc = "subscribing"
  /\ bus.handlers[i] = "listening"
  /\ LET then == ThenCallback(subs[i].isUnsubscribed)
         pushed == [bus EXCEPT !.listeners = Append(@, i)]
     IN /\ subs' = [subs EXCEPT ![i].pc = "subscribed", ![i].unsubscribe = then.keeps]
        /\ bus' = IF then.calls THEN Unsub(pushed, i) ELSE pushed

\* listen() rejects: subscribe() rejects and the then-callback never runs.
ListenRejects(i) ==
  /\ subs[i].pc = "subscribing"
  /\ bus.handlers[i] = "none"
  /\ subs' = [subs EXCEPT ![i].pc = "failed"]
  /\ UNCHANGED bus

\* The function createSafeSubscriber returned.
cancel(i) ==
  /\ subs[i].pc # "unused"
  /\ subs[i].cancels < MaxCancels
  /\ subs' = [subs EXCEPT ![i].isUnsubscribed = TRUE, ![i].cancels = @ + 1]
  /\ bus' = IF subs[i].unsubscribe THEN Unsub(bus, i) ELSE bus

\* The backend emits the event: the callback of every handler it holds is invoked.
EventArrives ==
  /\ bus' = [bus EXCEPT !.last = [tick |-> ~bus.last.tick,
                                  delivered |-> {i \in Subscribers :
                                                   bus.handlers[i] = "listening"}]]
  /\ UNCHANGED subs

InitSubscribers ==
  /\ InitController
  /\ fnIn = <<>>
  /\ fnOut = <<>>
  /\ NoAdapters
  /\ rdr = newRenderer("none")
  /\ flights = [j \in Targets |-> NoFlight]
  /\ rlog = NoOperation
  /\ eventHandlers = <<>>
  /\ emitLog = <<>>
  /\ expr = <<>>
  /\ subs = [i \in Subscribers |-> NewSubscriber]
  /\ bus = [listeners |-> <<>>,
            handlers |-> [i \in Subscribers |-> "none"],
            unlistens |-> [i \in Subscribers |-> 0],
            last |-> [tick |-> FALSE, delivered |-> {}]]

Others == <<ctl, env, obs, fn, faulty, adp, ldr, rdr, flights, rlog, eventHandlers, emitLog, expr>>

ListenSettles(i) ==
  (ListenRegisters(i) \/ ListenResolves(i) \/ ListenRejects(i)) /\ UNCHANGED Others

NextSubscribers ==
  \/ \E i \in Subscribers : createSafeSubscriber(i) /\ UNCHANGED Others
  \/ \E i \in Subscribers : ListenRegisters(i) /\ UNCHANGED Others
  \/ \E i \in Subscribers : ListenResolves(i) /\ UNCHANGED Others
  \/ \E i \in Subscribers : ListenRejects(i) /\ UNCHANGED Others
  \/ \E i \in Subscribers : cancel(i) /\ UNCHANGED Others
  \/ EventArrives /\ UNCHANGED Others

SubscriberSpec == InitSubscribers /\ [][NextSubscribers]_vars

\* A request sent to the backend is answered.
SubscriberLive ==
  SubscriberSpec /\ \A i \in Subscribers : WF_vars(ListenSettles(i))

\* ------------------------------------------------------------------ claims

SchedulerOps == {"processChunk", "processChunkWithPhonemes", "onComplete", "stop"}

\* C1: with no target registered, processChunk, processChunkWithPhonemes,
\* onComplete, stop and setTarget(null) do not throw and leave the queue and the
\* playing flag as they were.
C1_NoTargetIsNoOp ==
  [][(/\ target = NoTarget
      /\ target' = NoTarget
      /\ lastOp'.op \in SchedulerOps \cup {"setTarget"})
       => (queue' = queue /\ isPlaying' = isPlaying /\ ~threw')]_vars

\* C2: setTarget(null) does not throw and leaves the queue empty, the playing flag
\* false and no animation callback requested, whatever state it is called in.
C2_ClearIsSafe ==
  (lastOp.op = "setTarget" /\ registered = NoTarget)
    => (~threw /\ queue = <<>> /\ ~isPlaying /\ pending = {})

C2_Witness ==
  /\ lastOp.op = "setTarget"
  /\ registered = NoTarget
  /\ lastOp.prev # NoTarget
  /\ lastOp.playing
  /\ lastOp.queued > 0
  /\ pending = {}

\* C3: setTarget(null) with a target A registered invokes A.resetMouth().
C3_ClearResetsPrevious ==
  (lastOp.op = "setTarget" /\ registered = NoTarget /\ lastOp.prev # NoTarget)
    => (\E i \in DOMAIN calls : calls[i] = ResetMouthCall(lastOp.prev))

\* The targets that were registered once and are no longer.
Detached == {t \in Targets : t < nextTarget /\ t # registered}

\* C4: every call the scheduler makes goes to the target registered last; a
\* detached target receives no call, whatever chunks and refreshes follow.
C4_RoundTrip ==
  \A i \in DOMAIN calls :
    /\ calls[i].tgt = registered
    /\ calls[i].tgt \notin Detached

C4_Witness ==
  /\ 1 \in served
  /\ 1 \in Detached
  /\ registered = 2
  /\ lastOp.op = "animate"
  /\ \E i \in DOMAIN calls : calls[i].op = "setMouthShape" /\ calls[i].tgt = 2

Replaced ==
  /\ lastOp.op = "setTarget"
  /\ lastOp.prev # NoTarget
  /\ registered # NoTarget

\* C5 as stated: registering B while A is registered invokes A.resetMouth().
C5_ReplaceResetsPrevious ==
  Replaced => (\E i \in DOMAIN calls : calls[i] = ResetMouthCall(lastOp.prev))

\* C5 as amended: one target is registered at a time, and registering B while A is
\* registered detaches A without any call on A (its mouth is not reset).
C5_ReplaceDetachesSilently ==
  /\ target = registered
  /\ Replaced =>
       /\ target # lastOp.prev
       /\ lastOp.prev \in Detached
       /\ \A i \in DOMAIN calls : calls[i].tgt # lastOp.prev

C5_Witness ==
  /\ Replaced
  /\ lastOp.prev \in served
  /\ mouth = "closed"
  /\ lastOp.playing

HeldFrames == {cb.currentFrame[1] : cb \in {c \in pending : c.currentFrame # NoFrame}}

\* C6: setTarget(B) over a registered target A leaves the queue, the playing flag
\* and the held frame as they were and makes no call; the next refresh applies the
\* held frame to B.
C6_SeamlessHandoff ==
  /\ [][(target # NoTarget /\ lastOp'.op = "setTarget" /\ target' # NoTarget)
          => (/\ queue' = queue
              /\ isPlaying' = isPlaying
              /\ pending' = pending
              /\ calls' = <<>>)]_vars
  /\ [][(Replaced /\ isPlaying /\ lastOp'.op = "animate")
          => (\A f \in HeldFrames :
                /\ calls' # <<>>
                /\ calls'[1].op = "setMouthShape"
                /\ calls'[1].tgt = registered
                /\ calls'[1].phoneme = f.phoneme)]_vars

C6_Witness ==
  /\ Replaced
  /\ isPlaying
  /\ queue # <<>>
  /\ HeldFrames # {}
  /\ lastOp.prev \in served

\* C7: stop() with a target registered cancels the requested callback, empties the
\* queue, clears the playing flag and resets the target's mouth; no setMouthShape
\* follows until a chunk is processed.
C7_StopHalts ==
  /\ (lastOp.op = "stop" /\ target # NoTarget)
       => /\ pending = {}
          /\ queue = <<>>
          /\ ~isPlaying
          /\ calls = <<ResetMouthCall(target)>>
  /\ sinceStop => (\A i \in DOMAIN calls : calls[i].op # "setMouthShape")

C7_Witness ==
  /\ lastOp.op = "stop"
  /\ target # NoTarget
  /\ lastOp.playing
  /\ lastOp.queued > 0
  /\ mouth = "closed"

\* The queue has drained and the loop waits for more chunks.
Waiting == isPlaying /\ queue = <<>> /\ HeldFrames = {}

\* The last step was a refresh that halted the loop.
HaltedByGrace == lastOp.op = "animate" /\ lastOp.playing /\ ~isPlaying

\* C8: once the queue has drained, playback halts unless a chunk arrives or more
\* frames are queued: the target's mouth is reset, the playing flag cleared and no
\* callback requested.
C8_GraceHalt ==
  /\ Waiting ~> (~isPlaying \/ sinceChunk = 0 \/ queue # <<>>)
  /\ [](HaltedByGrace =>
          /\ target # NoTarget
          /\ calls # <<>>
          /\ calls[Len(calls)] = ResetMouthCall(target)
          /\ pending = {}
          /\ sinceChunk > Ms(GraceWindow))

C8_Witness == HaltedByGrace /\ mouth = "closed" /\ lastOp.queued = 0

\* The last step was no event of the chat stream.
StreamQuiet ==
  lastOp.op \notin {"processChunk", "processChunkWithPhonemes", "onComplete"}

RECURSIVE CharPhonemes(_, _)
CharPhonemes(text, rnd) ==
  IF text = <<>> THEN <<>>
  ELSE IF NeedsRandom(Head(text))
  THEN <<getPhonemeForChar(Head(text), Head(rnd))>> \o CharPhonemes(Tail(text), Tail(rnd))
  ELSE <<getPhonemeForChar(Head(text), 0)>> \o CharPhonemes(Tail(text), rnd)

\* The frames played back one character at a time.
RECURSIVE Unroll(_, _)
Unroll(frames, charDuration) ==
  IF frames = <<>> THEN <<>>
  ELSE [i \in 1..(Head(frames).duration \div charDuration) |-> Head(frames).phoneme]
         \o Unroll(Tail(frames), charDuration)

RECURSIVE SumDurations(_)
SumDurations(frames) ==
  IF frames = <<>> THEN 0 ELSE Head(frames).duration + SumDurations(Tail(frames))

\* C10: the frames of a text are its runs of equal phonemes, one frame per maximal
\* run, lasting the run's length times charDuration; no two adjacent frames share
\* a phoneme and the durations sum to the number of characters times charDuration.
C10_RunsMerge ==
  fnOut # <<>> =>
    LET frames == fnOut[1].frames
        cd == fnIn.cfg.charDuration
    IN /\ \A i \in 1..(Len(frames) - 1) : frames[i].phoneme # frames[i + 1].phoneme
       /\ \A i \in DOMAIN frames : frames[i].duration % cd = 0 /\ frames[i].duration > 0
       /\ Unroll(frames, cd) = CharPhonemes(fnIn.text, fnOut[1].rnd)
       /\ SumDurations(frames) = Len(fnIn.text) * cd

C10_Witness ==
  /\ fnOut # <<>>
  /\ Len(fnIn.text) = 3
  /\ Len(fnOut[1].frames) = 2
  /\ fnOut[1].rnd # <<>>

\* C11: for N >= 1 phonemes supplied with a text of length L, every frame lasts
\* max(charDuration, L * charDuration / N): each at least charDuration, and together
\* at least max(N, L) * charDuration.
C11_DurationLaw ==
  fnOut # <<>> =>
    LET frames == fnOut[1].frames
        N == Len(fnIn.phonemes)
        L == TextLength(fnIn.text)
        cd == fnIn.cfg.charDuration
    IN /\ \A i \in DOMAIN frames :
            /\ frames[i].duration * N = (IF cd * N >= L * cd THEN cd * N ELSE L * cd)
            /\ frames[i].duration >= cd
       /\ SumDurations(frames) >= (IF N >= L THEN N ELSE L) * cd

C11_Witness ==
  /\ fnOut # <<>>
  /\ Len(fnIn.phonemes) = 2
  /\ TextLength(fnIn.text) = 3
  /\ fnIn.cfg = DEFAULT_CONFIG
  /\ fnOut[1].frames[2].duration = Ms(120)

\* The chunk handler ran with lip sync enabled and a target registered, and returned.
ChunkProcessed ==
  /\ lastOp'.op = "processChunkWithPhonemes"
  /\ config.enabled
  /\ target # NoTarget
  /\ ~threw'

\* C12: with a non-empty phoneme array processChunkWithPhonemes appends one frame
\* per phoneme, in order, of weight 0.1 for N and closed and of the speaking weight
\* for A, E, I, O, U; ("你好", ["A", "N"]) at 80 ms gives (A, 0.7, 80), (N, 0.1, 80);
\* with an absent or empty array it appends the frames of the heuristic path.
C12_FramePerPhoneme ==
  /\ [][ChunkProcessed =>
          IF fnIn.phonemes # Absent /\ fnIn.phonemes # <<<<>>>>
          THEN LET ph == fnIn.phonemes[1]
                   n == Len(queue)
               IN /\ Len(queue') = n + Len(ph)
                  /\ SubSeq(queue', 1, n) = queue
                  /\ \A i \in DOMAIN ph :
                       /\ ph[i] \in {"N", "closed"} =>
                            /\ queue'[n + i].phoneme = ph[i]
                            /\ queue'[n + i].weight = 10
                       /\ ph[i] \in {"A", "E", "I", "O", "U"} =>
                            /\ queue'[n + i].phoneme = ph[i]
                            /\ queue'[n + i].weight = config.speakingWeight
          ELSE \E rnd \in RandomDraws(fnIn.text) :
                 queue' = queue \o textToFrames(fnIn.text, rnd, config)]_vars
  /\ [][(/\ ChunkProcessed
          /\ fnIn = [text |-> <<20320, 22909>>, phonemes |-> <<<<"A", "N">>>>]
          /\ config = DEFAULT_CONFIG)
          => queue' = queue \o <<[phoneme |-> "A", weight |-> 70, duration |-> Ms(80)],
                                 [phoneme |-> "N", weight |-> 10, duration |-> Ms(80)]>>]_vars

C12_Witness ==
  /\ lastOp.op = "processChunkWithPhonemes"
  /\ fnIn = [text |-> <<20320, 22909>>, phonemes |-> <<<<"A", "N">>>>]
  /\ config = DEFAULT_CONFIG
  /\ queue = <<[phoneme |-> "A", weight |-> 70, duration |-> Ms(80)],
               [phoneme |-> "N", weight |-> 10, duration |-> Ms(80)]>>
  /\ isPlaying

\* C13: the heuristic mapping is deterministic: any two evaluations of textToFrames
\* on the same text and config give the same frames.
C13_Deterministic ==
  fnOut # <<>> =>
    \A rnd \in RandomDraws(fnIn.text) :
      textToFrames(fnIn.text, rnd, fnIn.cfg) = fnOut[1].frames

\* C14: processChunkWithPhonemes never throws to the chunk handler, whatever the
\* entries of the phoneme array.
C14_ChunkNeverThrows ==
  lastOp.op = "processChunkWithPhonemes" => ~threw

\* C15: when the registered target throws from setMouthShape or resetMouth, stop()
\* and setTarget do not throw to their caller and the loop is not lost: the playing
\* flag is never set with no animation callback requested.
C15_TargetFailureContained ==
  /\ isPlaying => pending # {}
  /\ lastOp.op \in {"stop", "setTarget"} => ~threw

\* The shapes and morph indices of the adapter that carry a nonzero weight.
NonZero ==
  IF vrm # <<>>
  THEN {e \in DOMAIN vrm[1].weights : vrm[1].weights[e] # 0}
  ELSE {i \in DOMAIN mmd[1].influences : mmd[1].influences[i] # 0}

\* C16: after any sequence of setMouthShape and resetMouth calls on a VRM or MMD
\* adapter, at most one of the shapes or morph indices it drives has a nonzero
\* weight, also when phonemes have no shape or share one.
C16_OneShapeAtATime == Cardinality(NonZero) <= 1

\* A phoneme without shape and two phonemes sharing one; the shared shape was just
\* driven for the second of them after the first.
C16_Witness ==
  /\ vrm # <<>>
  /\ "I" \notin DOMAIN vrm[1].shapeMap
  /\ {"E", "U"} \subseteq DOMAIN vrm[1].shapeMap
  /\ vrm[1].shapeMap["E"] = vrm[1].shapeMap["U"]
  /\ adapterCall.op = "setMouthShape"
  /\ adapterCall.phoneme = "U"
  /\ Len(adapterCall.writes) = 2
  /\ Cardinality(NonZero) = 1

\* The adapter's remembered last shape is cleared.
LastCleared ==
  IF vrm # <<>> THEN vrm[1].lastPhoneme = "closed" ELSE mmd[1].lastIndex = -1

\* C17: resetMouth() leaves every driven shape at weight 0 and the remembered last
\* shape cleared; a second call in a row changes nothing and writes no nonzero weight.
C17_ResetIdempotent ==
  /\ [](adapterCall.op = "resetMouth" => (NonZero = {} /\ LastCleared))
  /\ [][(adapterCall.op = "resetMouth" /\ adapterCall'.op = "resetMouth")
          => (/\ vrm' = vrm
              /\ mmd' = mmd
              /\ \A i \in DOMAIN adapterCall'.writes : adapterCall'.writes[i].weight = 0)]_vars

C17_Witness ==
  /\ mmd # <<>>
  /\ adapterCall.op = "resetMouth"
  /\ adapterCall.prev.op = "resetMouth"
  /\ adapterCall.prev.writes # <<>>
  /\ adapterCall.writes = <<>>

\* The renderer that created adapter t has unloaded it or been disposed.
Stale(t) == loads[t].disposed \/ ~loads[t].adapter

\* C18: across model loads, unloads, disposals and viewer switches, no
\* setMouthShape or resetMouth call reaches a target whose renderer has unloaded
\* or been disposed, and the registered target is never an adapter of a renderer
\* other than the active one.
C18_SingleHotTarget ==
  /\ \A i \in DOMAIN calls : ~Stale(calls[i].tgt)
  /\ target # NoTarget => (target = canvas.rendererRef /\ ~Stale(target))

\* Load 1 was superseded in flight and settled after load 2 had registered its
\* adapter; the following refresh drives adapter 2.
C18_Witness ==
  /\ loadLog.op = "resolve"
  /\ loadLog.id = 1
  /\ loadLog.aborted
  /\ target = 2
  /\ calls # <<>>
  /\ calls[1].op = "setMouthShape"
  /\ calls[1].tgt = 2

\* A load started after load k has completed and its renderer is the active one.
NewerCompleted(k) ==
  \E j \in Targets : j > k /\ loads[j].pc = "done" /\ canvas.rendererRef = j

\* C19: last load wins: when a load that was superseded in flight settles after
\* the newer load has completed, it applies no state: the store's loaded flag,
\* model info and error stay those of the newer load.
C19_LastLoadWins ==
  [][(/\ loadLog'.op \in {"resolve", "reject"}
      /\ loadLog' # loadLog
      /\ loadLog'.aborted
      /\ NewerCompleted(loadLog'.id))
      => store' = store]_vars

\* C20: a load that was aborted and whose file loaded does not throw to its caller,
\* does not emit 'error' and does not set the store's error.
C20_CancellationSilent ==
  (loadLog.op = "resolve" /\ loadLog.aborted) =>
    (/\ ~loadLog.threw
     /\ "error" \notin loadLog.emitted
     /\ ~loadLog.setError)

\* C21: when load() calls on one adapter overlap, its scene never holds two
\* models, and the model the adapter references is the only one attached.
C21_OneLiveModel ==
  /\ Cardinality(rdr.attached) <= 1
  /\ rdr.attached \subseteq {rdr.model}

\* load() was just called on a loaded adapter.
ReloadStarted ==
  /\ rdr.isLoaded
  /\ rlog'.op = "load"
  /\ rlog'.id = nextTarget

\* C22: load() on a loaded adapter first runs the whole unload path: the previous
\* model is removed from the scene and released, the lip-sync target is detached,
\* the loaded flag and the metadata are cleared, all before the new model is
\* fetched; with sequential loads the scene never holds more than one model.
C22_ReloadUnloadsFirst ==
  /\ [][ReloadStarted =>
          /\ rdr'.attached = {}
          /\ rdr'.model = 0
          /\ rdr.model \in rdr'.released
          /\ target' = NoTarget
          /\ rdr'.lipSyncAdapter = 0
          /\ ~rdr'.isLoaded
          /\ rdr'.metadata = 0
          /\ flights'[rlog'.id].pc \in {"first", "loading"}]_vars
  /\ [](Cardinality(rdr.attached) <= 1)

\* The second of two sequential loads is loaded and the first model was released.
C22_Witness ==
  /\ rdr.isLoaded
  /\ rdr.model = 2
  /\ rdr.attached = {2}
  /\ 1 \in rdr.released
  /\ flights[1].pc = "resolved"

\* A failure was just raised in the load() call j.
Failed(j) ==
  /\ flights[j].pc \in {"first", "loading"}
  /\ rlog'.id = j
  /\ rlog'.outcome.raised # "none"

C24_NoPartialState ==
  (rlog.op = "settle" /\ flights[rlog.id].pc = "rejected") =>
    /\ rdr.model = 0
    /\ rdr.attached = {}
    /\ rdr.helper = 0
    /\ rdr.lipSyncAdapter = 0

\* C25: once dispose() has run, a load that was in flight never makes the adapter
\* loaded again, never emits 'loaded', never re-creates the rendering surface and
\* never registers a lip-sync target.
C25_DisposedIsFinal ==
  rdr.disposed =>
    /\ ~rdr.isLoaded
    /\ ~rdr.scene
    /\ rdr.lipSyncAdapter = 0
    /\ target = NoTarget
    /\ \A i \in DOMAIN rlog.outcome.emitted : rlog.outcome.emitted[i] # "loaded"

\* The effects of unloadModel() and dispose() on the model's resources and on the
\* rendering surface.
Teardown == {"animations", "outfitParts", "remove", "release", "surface"}

\* C26: in unloadModel() of the adapters that register a lip-sync target (VRM,
\* glTF, FBX, MMD), setTarget(null) comes before every removal or disposal of a
\* model, geometry, material or animation resource.
C26_TargetReleasedFirst ==
  rdr.kind # "live2d" =>
    \A i \in DOMAIN rlog.effects :
      rlog.effects[i] \in Teardown => \E k \in 1..(i - 1) : rlog.effects[k] = "setTarget"

\* unloadModel() of a loaded MMD adapter: the controller lost target 1 and the
\* model was then removed and released.
C26_Witness ==
  /\ rdr.kind = "mmd"
  /\ rlog.op = "unloadModel"
  /\ rlog.effects = <<"setTarget", "animations", "outfitParts", "remove", "release", "flags">>
  /\ lastOp.op = "setTarget"
  /\ lastOp.prev = 1
  /\ target = NoTarget
  /\ 1 \in rdr.released

\* C27: unloadModel() leaves the loaded flag false, the metadata null, the
\* animation and outfit caches empty and the lip-sync target detached; it leaves
\* the rendering surface as it was and emits nothing; only dispose() tears the
\* surface down and emits 'disposed'.
C27_UnloadKeepsSurface ==
  /\ [][(rlog'.op = "unloadModel" /\ (rlog' # rlog \/ rdr' # rdr)) =>
          /\ ~rdr'.isLoaded
          /\ rdr'.metadata = 0
          /\ ~rdr'.animations
          /\ ~rdr'.outfitParts
          /\ rdr'.lipSyncAdapter = 0
          /\ target' = NoTarget
          /\ rdr'.scene = rdr.scene
          /\ rdr'.loop = rdr.loop
          /\ rdr'.disposed = rdr.disposed
          /\ rlog'.outcome.emitted = <<>>]_vars
  /\ [][((rdr.scene /\ ~rdr'.scene) \/ (~rdr.disposed /\ rdr'.disposed)
           \/ (rlog' # rlog /\ rlog'.outcome.emitted = <<"disposed">>))
          => (/\ rlog'.op = "dispose"
              /\ rlog'.outcome.emitted = <<"disposed">>
              /\ ~rdr'.scene
              /\ rdr'.disposed)]_vars

\* unloadModel() was called on a loaded adapter, whose scene is still there.
C27_Witness ==
  /\ rlog.op = "unloadModel"
  /\ flights[1].pc = "resolved"
  /\ 1 \in rdr.released
  /\ rdr.scene
  /\ rdr.loop
  /\ ~rdr.disposed
  /\ ~rdr.isLoaded

\* The handlers a delivery invoked, with the number of times each was invoked.
Invocations(delivery, handler) ==
  Cardinality({i \in DOMAIN delivery.invoked : delivery.invoked[i] = handler})

\* C28: emit(event) invokes every handler subscribed to the event exactly once,
\* also when some of them throw; it does not throw to its caller; a handler whose
\* unsubscribe function was called is not invoked.
C28_DeliveryIsolated ==
  emitLog.last # <<>> =>
    /\ \A handler \in Observers :
         Invocations(emitLog.last[1].delivery, handler)
           = (IF handler \in emitLog.last[1].subscribed THEN 1 ELSE 0)
    /\ ~emitLog.last[1].delivery.threw

\* 'loaded' was delivered to the throwing handler and then to the logger, after
\* the canvas had unsubscribed.
C28_Witness ==
  /\ emitLog.last # <<>>
  /\ emitLog.last[1].event = "loaded"
  /\ emitLog.last[1].delivery.invoked = <<"faulty", "logger">>
  /\ emitLog.last[1].delivery.caught = <<"faulty">>
  /\ <<"loaded", "canvas">> \in emitLog.issued \ emitLog.live

\* The exposed expression a call names: the glTF adapter looks the name up in
\* lower case, the others as given.
Named(e, name) ==
  {x \in getAvailableExpressions(e) : x = (IF e.kind = "gltf" THEN LowerName(name) ELSE name)}

NonZeroExpressions(e) == {x \in getAvailableExpressions(e) : WeightOf(e, x) # 0}

LastCall == expr.calls[Len(expr.calls)]

\* C29: after setExpression(Y, w) on a model that exposes Y, Y holds weight w and
\* every other exposed expression, the one set by the call before included,
\* holds weight 0; and whatever calls were made on the expression controller,
\* at most one exposed expression has a nonzero weight.
C29_ExpressionsExclusive ==
  /\ Cardinality(NonZeroExpressions(expr)) <= 1
  /\ (/\ expr.calls # <<>>
      /\ LastCall.op = "setExpression"
      /\ Named(expr, LastCall.name) # {})
     => \A x \in getAvailableExpressions(expr) :
          WeightOf(expr, x) = (IF x \in Named(expr, LastCall.name) THEN LastCall.weight ELSE 0)

\* setExpression(X, w1) then setExpression(Y, w2) on a glTF model, X and Y two
\* expressions the model exposes and both weights positive.
C29_Witness ==
  /\ expr.kind = "gltf"
  /\ Len(expr.calls) = 2
  /\ expr.calls[1].op = "setExpression"
  /\ expr.calls[2].op = "setExpression"
  /\ expr.calls[1].weight > 0
  /\ expr.calls[2].weight > 0
  /\ Named(expr, expr.calls[1].name) # {}
  /\ Named(expr, expr.calls[2].name) # {}
  /\ Named(expr, expr.calls[1].name) # Named(expr, expr.calls[2].name)

\* The file embeds VRM extension markers: a GLB that can be read and whose JSON
\* chunk contains one of them.
EmbedsVrmMarkers(file) ==
  file.fetch /\ file.glb /\ file.jsonChunk /\ file.markers \cap VrmMarkers # {}

\* The factory the format dispatch names for a path.
Dispatched(path, file) ==
  CASE path = ModelVrm -> "vrm"
    [] path = ModelGltf -> "gltf"
    [] path = AvatarFbx -> "fbx"
    [] path = CharPmx -> "mmd"
    [] path = SceneModel3Json -> "live2d"
    [] path = ModelGlb -> IF EmbedsVrmMarkers(file) THEN "vrm" ELSE "gltf"

DispatchPaths == {ModelVrm, ModelGlb, ModelGltf, AvatarFbx, CharPmx, SceneModel3Json}

\* C30: the default registry resolves model.vrm to the VRM factory, model.gltf
\* to glTF, avatar.fbx to FBX, char.pmx to MMD, scene.model3.json to Live2D,
\* and model.glb to the VRM factory when the file embeds VRM extension markers
\* and to the glTF factory when it does not.
C30_FormatDispatch ==
  (/\ fnOut # <<>>
   /\ fnOut[1].op = "getFactory"
   /\ fnIn.path \in DispatchPaths)
  => fnOut[1].result = Dispatched(fnIn.path, fnIn.file)

Accepting(factories, path) ==
  {i \in DOMAIN factories : FactoryCanHandle(factories[i], path)}

\* C31: getFactory(path) returns the earliest-registered factory whose
\* canHandle(path) is true and createRenderer creates that factory's renderer;
\* for a path no registered factory accepts, getFactory and createRenderer
\* return null and canHandle returns false.
C31_FirstMatchWins ==
  fnOut # <<>> =>
    LET hits == Accepting(fnIn.factories, fnIn.path)
        out == fnOut[1]
    IN /\ (out.op = "getFactory" /\ hits = {}) => out.result = "null"
       /\ (out.op = "createRenderer" /\ hits = {}) => out.result = "null"
       /\ (out.op = "canHandle") => (out.result = (hits # {}))
       /\ (out.op = "getFactory" /\ hits # {}) =>
            \E i \in hits : /\ out.result = fnIn.factories[i]
                            /\ \A j \in hits : i <= j
       /\ (out.op = "createRenderer" /\ hits # {}) =>
            \E i \in hits : /\ out.result = [modelType |-> fnIn.factories[i]]
                            /\ \A j \in hits : i <= j

\* model.glb on a registry that registered the glTF factory before the VRM
\* factory: both accept it, and getFactory has answered.
C31_Witness ==
  /\ fnOut # <<>>
  /\ fnOut[1].op = "getFactory"
  /\ fnIn.path = ModelGlb
  /\ Len(fnIn.factories) >= 2
  /\ fnIn.factories[1] = "gltf"
  /\ fnIn.factories[2] = "vrm"

\* The step is a display refresh that ran the scheduler's callback.
Ticked == lastOp'.op = "animate" /\ pending' # pending

\* The step processed a chunk that brought frames.
ChunkQueued ==
  /\ lastOp'.op \in {"processChunk", "processChunkWithPhonemes"}
  /\ queue' # queue

\* C32: while playback is active and the queue is empty, a tick at which no more
\* than 500 ms have passed since the last chunk neither resets the mouth nor
\* halts the loop; a chunk arriving while the loop waits starts no second loop,
\* and the next tick of the waiting callback takes the chunk's first frame.
C32_JitterTolerance ==
  /\ [][(Ticked /\ isPlaying /\ queue = <<>> /\ sinceChunk' <= Ms(GraceWindow))
          => (/\ isPlaying'
              /\ \A i \in DOMAIN calls' : calls'[i].op # "resetMouth"
              /\ Cardinality(pending') = 1
              /\ \A cb \in pending' : cb.id = animationTimer')]_vars
  /\ [][(ChunkQueued /\ isPlaying /\ queue = <<>>)
          => (/\ pending' = pending
              /\ animationTimer' = animationTimer
              /\ isPlaying')]_vars
  /\ [][(Ticked /\ isPlaying /\ queue # <<>> /\ HeldFrames = {})
          => (/\ queue' = Tail(queue)
              /\ \A cb \in pending' : cb.currentFrame = <<Head(queue)>>
              /\ pending' # {})]_vars

\* The loop has waited through a tick inside the grace window, on an empty queue
\* and with no frame in hand, and is still running.
C32_Witness ==
  /\ lastOp.op = "animate"
  /\ lastOp.playing
  /\ lastOp.queued = 0
  /\ isPlaying
  /\ HeldFrames = {}
  /\ pending # {}
  /\ sinceChunk > 0
  /\ sinceChunk <= Ms(GraceWindow)
  /\ \A i \in DOMAIN calls : calls[i].op # "resetMouth"

\* The step emptied the queue from outside the loop: stop(), or setTarget(null).
Intervened == lastOp'.op \in {"stop", "setTarget"}

\* C33: frames enter the queue at its end and leave it at its front, one per tick,
\* into the hand of the running callback; every tick applies the frame in hand to
\* the registered target before it takes the next one, and the frame in hand
\* changes at a tick only, unless stop() or setTarget(null) intervenes.
C33_FifoPlayback ==
  /\ [][queue' # queue
          => \/ /\ lastOp'.op \in {"processChunk", "processChunkWithPhonemes", "onComplete"}
                /\ Len(queue') > Len(queue)
                /\ SubSeq(queue', 1, Len(queue)) = queue
             \/ /\ Ticked
                /\ queue # <<>>
                /\ queue' = Tail(queue)
                /\ pending' # {}
                /\ \A cb \in pending' : cb.currentFrame = <<Head(queue)>>
             \/ /\ Intervened
                /\ queue' = <<>>]_vars
  /\ [][(Ticked /\ isPlaying /\ HeldFrames # {})
          => (\A f \in HeldFrames :
                /\ calls' # <<>>
                /\ calls'[1].op = "setMouthShape"
                /\ calls'[1].tgt = target
                /\ calls'[1].phoneme = f.phoneme)]_vars
  /\ [][HeldFrames' # HeldFrames => (Ticked \/ Intervened)]_vars

\* Three chunks of one frame each, E then O then E: a tick has applied the first
\* and taken the second while the third waits in the queue.
C33_Witness ==
  /\ lastOp.op = "animate"
  /\ isPlaying
  /\ calls # <<>>
  /\ calls[1].op = "setMouthShape"
  /\ calls[1].phoneme = "E"
  /\ HeldFrames # {}
  /\ \A f \in HeldFrames : f.phoneme = "O"
  /\ queue # <<>>
  /\ queue[1].phoneme = "E"

\* The documented ranges of the configuration.
ConfigInRange ==
  /\ config.charDuration > 0
  /\ config.transitionDuration > 0
  /\ config.speakingWeight >= 0
  /\ config.speakingWeight <= 100

\* C34: with the configuration in its documented ranges, every frame in the queue
\* has a weight in [0, 1] and a duration above 0, whatever setConfig,
\* processChunk, processChunkWithPhonemes and onComplete calls were made, with
\* empty texts and phoneme arrays longer than the text among the chunks.
C34_FramesInRange ==
  /\ ConfigInRange
  /\ \A i \in DOMAIN queue :
       /\ queue[i].weight >= 0
       /\ queue[i].weight <= 100
       /\ queue[i].duration > 0

\* Two phonemes came with an empty text under the shortest character duration
\* and speaking weight 1; the speaking weight has since been set to 0.
C34_Witness ==
  /\ Len(queue) = 2
  /\ queue[1].phoneme = "A"
  /\ queue[1].weight = 100
  /\ queue[1].duration = 1
  /\ queue[2].phoneme = "N"
  /\ queue[2].duration = 1
  /\ config.speakingWeight = 0

\* C35: whenever the playing flag is false the queue is empty, whatever the order
\* of processChunk, processChunkWithPhonemes, onComplete, stop, setTarget and ticks.
C35_IdleQueueEmpty == ~isPlaying => queue = <<>>

\* C36: there is never more than one requested callback of the scheduler, and the
\* playing flag is true exactly when one is requested, whatever the order of
\* processChunk, processChunkWithPhonemes, onComplete, stop, setTarget and ticks.
C36_OneLoop ==
  /\ Cardinality(pending) <= 1
  /\ isPlaying <=> pending # {}
  /\ \A cb \in pending : cb.id = animationTimer

\* Playback ended and a later chunk started it again: one callback is requested,
\* the first one of the new loop.
C36_Witness ==
  /\ lastOp.op \in {"processChunk", "processChunkWithPhonemes"}
  /\ isPlaying
  /\ Cardinality(pending) = 1
  /\ \A cb \in pending : cb.id = animationTimer /\ cb.currentFrame = NoFrame /\ cb.id # 1
  /\ queue # <<>>

\* The step is the return of load() on renderer k after its signal was aborted:
\* initRenderer disposes the renderer, and dispose() unloads its model.
StaleDisposed(k) ==
  /\ loads[k].pc = "loading"
  /\ loads'[k].pc = "done"
  /\ loads[k].aborted

\* C37: when the adapter of renderer Y is registered, the unloadModel() and
\* dispose() of another renderer X leave Y's adapter registered and the queue
\* and the playback as they were.
C37_ReleasesOwnTargetOnly ==
  [][\A k \in Targets :
       (StaleDisposed(k) /\ registered # NoTarget /\ registered # k)
         => (/\ registered' = registered
             /\ target' = target
             /\ queue' = queue
             /\ isPlaying' = isPlaying
             /\ pending' = pending)]_vars

\* C38: the model type the store's loadModel chooses for a path names the factory
\* the default registry resolves the path to, and a path the registry rejects
\* is given no renderer type by the store.
C38_SelectionsAgree ==
  (fnOut # <<>> /\ fnOut[1].op = "loadModel")
    => fnOut[1].result = Find(DefaultRegistry, fnIn.path)

\* C39: whether cancel is called before or after the subscription completes, the
\* backend's handler is removed once the subscription has completed, unlisten
\* is called once for one call of cancel and never more often than cancel, and
\* an event that arrives after the removal does not invoke the callback.
C39_CancelRaceFree ==
  /\ \A i \in Subscribers :
       (subs[i].isUnsubscribed /\ bus.handlers[i] = "listening")
         ~> (bus.handlers[i] = "removed")
  /\ [](\A i \in Subscribers :
          /\ bus.unlistens[i] <= subs[i].cancels
          /\ (subs[i].cancels = 1 /\ subs[i].pc = "subscribed") => bus.unlistens[i] = 1
          /\ (bus.handlers[i] = "removed") <=> (bus.unlistens[i] > 0)
          /\ (subs[i].isUnsubscribed /\ subs[i].pc = "subscribed")
               => (/\ bus.handlers[i] = "removed"
                   /\ \A k \in DOMAIN bus.listeners : bus.listeners[k] # i))
  /\ [][\A i \in Subscribers :
          bus.handlers[i] = "removed"
            => /\ bus'.handlers[i] = "removed"
               /\ bus'.last # bus.last => i \notin bus'.last.delivered]_vars

\* Cancel came while listen() was pending and the backend had registered the
\* handler; the subscription has completed since and the handler is removed,
\* while another subscriber of the event still listens.
C39_Witness ==
  \E i \in Subscribers : \E j \in Subscribers :
    /\ subs[i].pc = "subscribed"
    /\ subs[i].cancels = 1
    /\ ~subs[i].unsubscribe
    /\ bus.handlers[i] = "removed"
    /\ bus.unlistens[i] = 1
    /\ i \in bus.last.delivered
    /\ bus.handlers[j] = "listening"
    /\ bus.listeners = <<j>>

====
